---------------------------- MODULE Spec2Model ----------------------------
(***************************************************************************)
(* A model of the goas comment-directive parser and schema resolver.       *)
(*                                                                         *)
(* The parser state (the by-ID memo KnownIDSchema, the document registry   *)
(* Components.Schemas, Paths, KnownOperationIDs) is the state of the       *)
(* machine; every schema node lives in a heap so that pointer identity and *)
(* in-place mutation are those of the Go code.  One action is one          *)
(* iteration of the parsePaths loop: a call of parseOperation on one       *)
(* comment block followed by the caller's error check.                     *)
(*                                                                         *)
(* Go strings that the code splits or scans are kept tokenised: a type     *)
(* name is the record [pre, qual, name] of its "[]"/"map[]" prefixes, the  *)
(* dot-separated parts before the last dot, and the last part; a package   *)
(* name is the sequence of its "/"-separated segments.  The segment names  *)
(* are chosen so that no segment is a substring of another one, which      *)
(* makes strings.Contains on names agree with containment of segments.     *)
(***************************************************************************)
EXTENDS Integers, Sequences, FiniteSets, TLC

(***************************************************************************)
(* Bounds.                                                                 *)
(***************************************************************************)
\* nested parseSchemaObject calls the goroutine stack can hold
MaxDepth == 6
\* comment lines consumed in a run of the resolver specification
MaxResolveLines == 2
\* comment lines consumed in a run of the operation specification
MaxOpLines == 3

\* the lines of the blocks of a run of the status specification
MaxStatusLines == 2
\* the lines after the title and the version in the comments of the main file
MaxInfoLines == 3
\* the lines of the block of directives of the document specification
MaxDirectiveLines == 2
\* the lines after the title and the version in a run of the command
\* specification
MaxMainLines == 1
\* the @Param lines of a run of the parameter specification
MaxParamLines == 2
\* the lines of a run of the basic-type specification
MaxBasicLines == 2

(***************************************************************************)
(* Type-name expressions.                                                  *)
(***************************************************************************)
TN(pre, qual, name) == [pre |-> pre, qual |-> qual, name |-> name]

Plain(name) == TN(<<>>, <<>>, name)

Dotted(q, name) == TN(<<>>, <<q>>, name)

ArrayOf(t) == [t EXCEPT !.pre = <<"[]">> \o @]

MapOf(t) == [t EXCEPT !.pre = <<"map[]">> \o @]

HasArrayPrefix(t) == t.pre /= <<>> /\ Head(t.pre) = "[]"

HasMapPrefix(t) == t.pre /= <<>> /\ Head(t.pre) = "map[]"

StripPrefix(t) == [t EXCEPT !.pre = Tail(@)]

RECURSIVE Concat(_)
Concat(ss) == IF ss = <<>> THEN "" ELSE Head(ss) \o Concat(Tail(ss))

GoTypeTime == Dotted("time", "Time")

GoTypeIgnored == "ignored"

DefaultFieldName == "key"

TypeObject == "object"

TypeArray == "array"

basicGoTypes ==
    {"bool", "uint", "uint8", "uint16", "uint32", "uint64", "int", "int8",
     "int16", "int32", "int64", "float32", "float64", "string", "complex64",
     "complex128", "byte", "rune", "uintptr", "error"}

IsBasicGoType(t) == t.pre = <<>> /\ t.qual = <<>> /\ t.name \in basicGoTypes

GoTypesOASTypes ==
    [n \in {"bool", "uint", "uint8", "uint16", "uint32", "uint64", "int",
            "int8", "int16", "int32", "int64", "float32", "float64", "string"} |->
        CASE n = "bool" -> "boolean"
          [] n \in {"float32", "float64"} -> "number"
          [] n = "string" -> "string"
          [] OTHER -> "integer"]

IsGoTypeOASType(t) ==
    t.pre = <<>> /\ t.qual = <<>> /\ t.name \in DOMAIN GoTypesOASTypes

\* the last element of strings.Split(typeName, "."): a name without a dot is
\* returned whole, prefixes included
GenSchemaObjectID(t) ==
    IF t.qual /= <<>> THEN t.name ELSE Concat(t.pre) \o t.name

SchemaRefPrefix == "#/components/schemas/"

\* no name of the model contains a backslash
ReplaceBackslash(origin) == origin

AddSchemaRefLinkPrefix(name) == ReplaceBackslash(SchemaRefPrefix \o name)


(***************************************************************************)
(* The analysed source tree: packages, import aliases, type declarations.  *)
(***************************************************************************)
PkgMain == <<"goas">>

PkgTest == <<"goas", "test">>

PkgUnit == <<"goas", "test", "unit">>

PkgModels == <<"dep", "models">>

\* the empty package name the union-tag handlers pass to parseSchemaObject
NoPkg == <<>>

\* in the order of the module walk followed by the go.mod requirements
KnownPkgs == <<PkgMain, PkgTest, PkgUnit, PkgModels>>

PkgSet == {KnownPkgs[i] : i \in DOMAIN KnownPkgs}

\* the packages under ModulePath; the others come from the module cache
InModule(pkg) == pkg \in {PkgMain, PkgTest, PkgUnit}

\* alias -> imported package names, per importing package
PkgNameImportedPkgAlias ==
    [pkg \in PkgSet |->
        IF pkg = PkgMain THEN [a \in {<<"mdl">>} |-> <<PkgModels>>]
        ELSE [a \in {} |-> <<>>]]

\* strings.Contains(name, sub) on "/"-joined segments
Contains(name, sub) ==
    \E i \in 0..Len(name) :
        /\ i + Len(sub) <= Len(name)
        /\ \A j \in 1..Len(sub) : name[i + j] = sub[j]

Fld(name, type, tag) == [name |-> name, type |-> type, hasTag |-> TRUE, tag |-> tag]

FldNoTag(name, type) ==
    [name |-> name, type |-> type, hasTag |-> FALSE, tag |-> [x \in {} |-> ""]]

StructDecl(fields, doc, title) ==
    [kind |-> "struct", fields |-> fields, elt |-> Plain(""), doc |-> doc, title |-> title]

ArrayDecl(elt) ==
    [kind |-> "array", fields |-> <<>>, elt |-> elt, doc |-> FALSE, title |-> ""]

MapDecl(elt) ==
    [kind |-> "map", fields |-> <<>>, elt |-> elt, doc |-> FALSE, title |-> ""]

IdentDecl == [kind |-> "ident", fields |-> <<>>, elt |-> Plain(""), doc |-> FALSE, title |-> ""]

Interface == Plain("interface{}")

KindField(tag) == Fld("Kind", Interface, tag)

MainTypes ==
    [Node |-> StructDecl(<<Fld("Children", ArrayOf(Plain("Node")), [json |-> <<"children">>])>>,
                         FALSE, ""),
     Ping |-> StructDecl(<<Fld("Pong", Plain("Pong"), [json |-> <<"pong">>])>>, FALSE, ""),
     Pong |-> StructDecl(<<Fld("Ping", Plain("Ping"), [json |-> <<"ping">>])>>, FALSE, ""),
     Tree |-> StructDecl(<<Fld("Kids", MapOf(Plain("Tree")), [json |-> <<"kids">>])>>, FALSE, ""),
     User |-> StructDecl(<<Fld("Name", Plain("string"),
                               [json |-> <<"name", "required">>, required |-> "true",
                                minLength |-> "1"]),
                           Fld("Pet", Plain("Pet"),
                               [json |-> <<"pet">>, description |-> "the pet"]),
                           Fld("Secret", Plain("string"),
                               [json |-> <<"-">>, required |-> "true"])>>,
                         TRUE, "A user"),
     Pet  |-> StructDecl(<<Fld("Age", Plain("int"),
                               [json |-> <<"age">>, minimum |-> "1", example |-> "10"]),
                           FldNoTag("Tags", ArrayOf(Plain("string")))>>, FALSE, ""),
     Pets |-> ArrayDecl(Plain("Pet")),
     Code |-> IdentDecl]

TestTypes ==
    [Citrus |-> StructDecl(<<Fld("Color", Plain("string"), [json |-> <<"color">>])>>, FALSE, "")]

UnitTypes ==
    [Citrus |-> StructDecl(<<Fld("Kind", Plain("string"), [json |-> <<"kind">>])>>, TRUE, ""),
     Banana |-> StructDecl(<<Fld("Kind", Plain("string"), [json |-> <<"kind">>])>>, TRUE, ""),
     Empty  |-> StructDecl(<<>>, TRUE, "Nothing"),
     FruitDisc |->
        StructDecl(<<KindField([json |-> <<"kind">>,
                                oneOf |-> <<Dotted("unit", "Citrus"), Dotted("unit", "Banana")>>,
                                discriminator |-> "kind"])>>, TRUE, "One of a kind"),
     FruitBadDisc |->
        StructDecl(<<KindField([json |-> <<"kind">>,
                                oneOf |-> <<Dotted("unit", "Citrus"), Dotted("unit", "Banana")>>,
                                discriminator |-> "kindle"])>>, TRUE, ""),
     FruitEmptyDisc |->
        StructDecl(<<KindField([json |-> <<"kind">>,
                                oneOf |-> <<Dotted("unit", "Citrus"), Dotted("unit", "Empty")>>,
                                discriminator |-> "kind"])>>, TRUE, ""),
     FruitAllMissing |->
        StructDecl(<<KindField([json |-> <<"kind">>,
                                allOf |-> <<Dotted("unit", "Citrus"), Dotted("unit", "Missing")>>])>>,
                   TRUE, ""),
     FruitAnyMissing |->
        StructDecl(<<KindField([json |-> <<"kind">>,
                                anyOf |-> <<Dotted("nopkg", "Missing")>>])>>, TRUE, ""),
     FruitOneLost |->
        StructDecl(<<KindField([json |-> <<"kind">>,
                                oneOf |-> <<Plain("Lost")>>])>>, TRUE, ""),
     Release |->
        StructDecl(<<Fld("RangeInt", Plain("int64"),
                         [json |-> <<"range_int">>, minimum |-> "1", maximum |-> "100",
                          multipleOf |-> "5"]),
                     Fld("Description", Plain("string"),
                         [json |-> <<"description">>, minLength |-> "10", maxLength |-> "255",
                          exclusiveMinimum |-> "true", exclusiveMaximum |-> "true"]),
                     Fld("Deprecated", Plain("string"),
                         [json |-> <<"deprecated", "required", "-">>, required |-> "true",
                          example |-> "old", description |-> "gone", minimum |-> "1",
                          oneOf |-> <<Dotted("unit", "Citrus")>>]),
                     Fld("Required", Plain("string"), [json |-> <<"required", "required">>]),
                     Fld("GoasOnly", Plain("string"),
                         [json |-> <<"goas_only", "required">>, goas |-> <<"-">>,
                          required |-> "true", example |-> "old", pattern |-> "a+",
                          anyOf |-> <<Dotted("unit", "Banana")>>])>>, TRUE, ""),
     Needs |->
        StructDecl(<<Fld("Both", Plain("string"),
                         [json |-> <<"both", "required">>, required |-> "true"]),
                     Fld("Marked", Plain("int"), [json |-> <<"marked", "required">>]),
                     Fld("Explicit", Plain("int"), [json |-> <<"explicit">>, required |-> "true"]),
                     Fld("Free", Plain("int"), [json |-> <<"free", "omitempty">>])>>, TRUE, ""),
     TextMultiple |->
        StructDecl(<<Fld("Text", Plain("string"), [json |-> <<"text">>, multipleOf |-> "5"])>>,
                   TRUE, ""),
     TextMinimum |->
        StructDecl(<<Fld("Text", Plain("string"), [json |-> <<"text">>, minimum |-> "1"])>>,
                   TRUE, ""),
     FlagMaximum |->
        StructDecl(<<Fld("Flag", Plain("bool"), [json |-> <<"flag">>, maximum |-> "10"])>>,
                   TRUE, ""),
     TextExclusive |->
        StructDecl(<<Fld("Text", Plain("string"),
                         [json |-> <<"text">>, exclusiveMaximum |-> "true"])>>, TRUE, ""),
     RefMinimum |->
        StructDecl(<<Fld("Fruit", Plain("Citrus"), [json |-> <<"fruit">>, minimum |-> "1"])>>,
                   TRUE, ""),
     Base |->
        StructDecl(<<Fld("Serial", Plain("int"), [json |-> <<"serial">>]),
                     Fld("Label", Plain("string"), [json |-> <<"label">>])>>, TRUE, ""),
     Derived |->
        StructDecl(<<FldNoTag("", Plain("Base")),
                     Fld("Label", Plain("int"), [json |-> <<"label">>])>>, TRUE, "")]

ModelsTypes ==
    [Account |-> StructDecl(<<Fld("Owner", Plain("string"), [json |-> <<"owner">>])>>, TRUE, ""),
     Ledger  |-> StructDecl(<<>>, FALSE, "")]

TypeSpecs ==
    [pkg \in PkgSet |->
        CASE pkg = PkgMain -> MainTypes
          [] pkg = PkgTest -> TestTypes
          [] pkg = PkgUnit -> UnitTypes
          [] pkg = PkgModels -> ModelsTypes]

\* p.TypeSpecs is a field of the parser: st is the parser state
getTypeSpecExists(st, pkgName, typeName) ==
    pkgName \in DOMAIN st.TypeSpecs /\ typeName \in DOMAIN st.TypeSpecs[pkgName]

getTypeSpec(st, pkgName, typeName) == st.TypeSpecs[pkgName][typeName]

(***************************************************************************)
(* Schema nodes and the heap they live in.  A pointer is an index of the   *)
(* heap, 0 is nil.  Properties is the ordered map, hasProps tells a nil    *)
(* map from an empty one.                                                  *)
(***************************************************************************)
NoExample == [set |-> FALSE, kind |-> "", v |-> ""]

SchemaObject ==
    [ID |-> "", PkgName |-> NoPkg, FieldName |-> "", Type |-> "", Format |-> "",
     Items |-> 0, hasProps |-> FALSE, Properties |-> <<>>, Ref |-> "",
     Required |-> <<>>, Title |-> "", Description |-> "", Example |-> NoExample,
     Deprecated |-> FALSE, MultipleOf |-> 0, Minimum |-> 0, Maximum |-> 0,
     ExclusiveMinimum |-> FALSE, ExclusiveMaximum |-> FALSE,
     MinLength |-> 0, MaxLength |-> 0, Pattern |-> "",
     MinItems |-> 0, MaxItems |-> 0, UniqueItems |-> FALSE,
     MinProperties |-> 0, MaxProperties |-> 0, Enum |-> <<>>,
     AllOf |-> <<>>, OneOf |-> <<>>, AnyOf |-> <<>>, Discriminator |-> "",
     DisabledFieldNames |-> {}]

\* the parser fields every resolution reads and writes
NewParserState ==
    [heap |-> <<>>, KnownIDSchema |-> [x \in {} |-> 0], Schemas |-> [x \in {} |-> 0],
     TypeSpecs |-> TypeSpecs]

\* &types.SchemaObject{...}: the state with the node added; its pointer is NewPtr
Alloc(st, node) == [st EXCEPT !.heap = Append(@, node)]

NewPtr(st) == Len(st.heap) + 1

MapSet(m, k, v) == [x \in DOMAIN m \cup {k} |-> IF x = k THEN v ELSE m[x]]

HasKey(props, k) == \E i \in DOMAIN props : props[i].k = k

\* OrderedMap.Set: a known key keeps its place, a new key goes last
OrderedSet(props, k, v) ==
    IF HasKey(props, k)
    THEN [i \in DOMAIN props |-> IF props[i].k = k THEN [k |-> k, v |-> v] ELSE props[i]]
    ELSE Append(props, [k |-> k, v |-> v])

TagHas(tag, k) == k \in DOMAIN tag

\* StructTag.Get of a tag kept as one string
TagGet(tag, k) == IF k \in DOMAIN tag THEN tag[k] ELSE ""

\* strings.Split(StructTag.Get(k), ","); nil stands for the empty tag value
TagList(tag, k) == IF k \in DOMAIN tag THEN tag[k] ELSE <<>>

\* strconv.Atoi with the error dropped: 0 unless the text is a decimal integer
Atoi(text) ==
    CASE text = "1" -> 1
      [] text = "2" -> 2
      [] text = "5" -> 5
      [] text = "10" -> 10
      [] text = "100" -> 100
      [] text = "255" -> 255
      [] OTHER -> 0

\* strconv.ParseBool with the error dropped
ParseBool(text) == text \in {"1", "t", "T", "TRUE", "true", "True"}

\* the texts of the model that json.Unmarshal accepts as a list, as an object
JSONLists == {"[1]", "null"}

JSONObjects == {"{}", "null"}

MessageInvalidExample == "invalid example"

\* results of the resolver: the parser state, the returned pointer or name,
\* the returned error (<<>> is nil) and how the process died, if it did
Ret(st, ret) == [s |-> st, ret |-> ret, err |-> <<>>, crash |-> ""]

RetErr(st, ret, err) == [s |-> st, ret |-> ret, err |-> err, crash |-> ""]

Crash(st, how) == [s |-> st, ret |-> 0, err |-> <<>>, crash |-> how]

Failed(r) == r.err /= <<>> \/ r.crash /= ""

\* the element of a singleton; The({e(r) : r \in {v}}) is e of the result v,
\* with v computed once
The(S) == CHOOSE v \in S : TRUE

\* fmt.Errorf("<msg> ...: %v", err) on an error; a crash is not an error value
Wrap(r, msg) == IF r.crash /= "" \/ r.err = <<>> THEN r ELSE [r EXCEPT !.err = msg \o @]

SetNode(st, ptr, node) == [st EXCEPT !.heap[ptr] = node]

(***************************************************************************)
(* The schema resolver.  st is the parser state, o the order in which the  *)
(* range over the KnownNamePkg map visits the packages, d the number of    *)
(* parseSchemaObject frames the stack still holds.                         *)
(***************************************************************************)
RECURSIVE JoinDot(_)
JoinDot(parts) == IF parts = <<>> THEN "" ELSE Head(parts) \o "." \o JoinDot(Tail(parts))

\* the type name as the Go string it stands for
TypeString(t) == Concat(t.pre) \o JoinDot(t.qual) \o t.name

\* the first package, in the order o, that declares typeName; <<>> if none does
ScanKnownNamePkg(st, o, typeName) ==
    IF \A i \in DOMAIN o : ~getTypeSpecExists(st, o[i], typeName) THEN NoPkg
    ELSE o[CHOOSE i \in DOMAIN o :
                /\ getTypeSpecExists(st, o[i], typeName)
                /\ \A j \in 1..(i - 1) : ~getTypeSpecExists(st, o[j], typeName)]

\* the first known package whose name contains the guessed name, else the guess
GuessPkgName(guess) ==
    IF \A i \in DOMAIN KnownPkgs : ~Contains(KnownPkgs[i], guess) THEN guess
    ELSE KnownPkgs[CHOOSE i \in DOMAIN KnownPkgs :
                        /\ Contains(KnownPkgs[i], guess)
                        /\ \A j \in 1..(i - 1) : ~Contains(KnownPkgs[j], guess)]

AliasFound(pkgName, guess) ==
    /\ pkgName \in DOMAIN PkgNameImportedPkgAlias
    /\ guess \in DOMAIN PkgNameImportedPkgAlias[pkgName]
    /\ Len(PkgNameImportedPkgAlias[pkgName][guess]) /= 0

\* only @Title lines are kept of a type's doc comment
parseSchemaComments(decl, node) ==
    IF decl.title /= "" THEN [node EXCEPT !.Title = decl.title] ELSE node

\* schemaObject.PkgName, .ID and the memo entry are set, then the doc comment
\* is read if there is one
Memoize(st, ptr, pkgName, id, decl) ==
    [st EXCEPT !.heap[ptr] = IF decl.doc
                             THEN parseSchemaComments(decl,
                                        [@ EXCEPT !.PkgName = pkgName, !.ID = id])
                             ELSE [@ EXCEPT !.PkgName = pkgName, !.ID = id],
               !.KnownIDSchema = MapSet(@, id, ptr)]

RECURSIVE parseSchemaObject(_, _, _, _, _, _)
RECURSIVE registerType(_, _, _, _, _)
RECURSIVE FieldsLoop(_, _, _, _, _, _, _)
RECURSIVE UnionLoop(_, _, _, _, _, _, _)

\* the schema of a reference to the memoized node known
RefTo(st, id) == [SchemaObject EXCEPT !.Ref = AddSchemaRefLinkPrefix(id)]

registerType(st, o, d, pkgName, t) ==
    IF IsBasicGoType(t) THEN Ret(st, t.name)
    ELSE IF GenSchemaObjectID(t) \in DOMAIN st.KnownIDSchema
    THEN Ret(st, st.heap[st.KnownIDSchema[GenSchemaObjectID(t)]].ID)
    ELSE The({IF Failed(r) THEN [r EXCEPT !.ret = ""]
              ELSE [r EXCEPT !.ret = r.s.heap[r.ret].ID]
              : r \in {parseSchemaObject(st, o, d, pkgName, "", t)}})

\* schemaObject.Items or the single property of a declared array or map type:
\* item is the pointer of the fresh element schema
ElementSchema(st, o, d, item, elt, pkgName) ==
    IF ~IsBasicGoType(elt)
    THEN The({IF Failed(r)
              THEN Wrap([r EXCEPT !.ret = 0], <<"parseSchemaObject parse array items err">>)
              ELSE Ret([r.s EXCEPT !.heap[item].Ref = AddSchemaRefLinkPrefix(r.ret)], 0)
              : r \in {registerType(st, o, d, pkgName, elt)}})
    ELSE IF IsGoTypeOASType(elt)
    THEN Ret([st EXCEPT !.heap[item].Type = GoTypesOASTypes[elt.name]], 0)
    ELSE Ret(st, 0)

handleArrayType(st, o, d, ptr, elt, pkgName) ==
    LET item == NewPtr(st)
        s1 == [Alloc(st, SchemaObject) EXCEPT !.heap[ptr].Type = TypeArray,
                                              !.heap[ptr].Items = item]
    IN  ElementSchema(s1, o, d, item, elt, pkgName)

handleMapType(st, o, d, fieldName, ptr, elt, pkgName) ==
    LET item == NewPtr(st)
        key == IF fieldName = "" THEN DefaultFieldName ELSE fieldName
        s1 == [Alloc(st, SchemaObject) EXCEPT
                    !.heap[ptr].Type = TypeObject,
                    !.heap[ptr].hasProps = TRUE,
                    !.heap[ptr].Properties = OrderedSet(<<>>, key, item)]
    IN  ElementSchema(s1, o, d, item, elt, pkgName)

handleStructType(st, o, d, ptr, fields, pkgName) ==
    LET s1 == [st EXCEPT !.heap[ptr].Type = TypeObject]
    IN  IF fields = <<>> THEN Ret(s1, 0)
        ELSE FieldsLoop([s1 EXCEPT !.heap[ptr].hasProps = TRUE,
                                   !.heap[ptr].Properties = <<>>],
                        o, d, pkgName, ptr, fields, 1)

\* Populate with the registration made whether or not the ID has an entry
PopulateOverwrite(st, o, d, ptr, decl, pkgName, fieldName) ==
    The({IF Failed(r) THEN [r EXCEPT !.ret = 0]
         ELSE Ret([r.s EXCEPT !.Schemas =
                        MapSet(@, ReplaceBackslash(r.s.heap[ptr].ID), ptr)], ptr)
         : r \in {CASE decl.kind = "struct" ->
                            handleStructType(st, o, d, ptr, decl.fields, pkgName)
                    [] decl.kind = "array" ->
                            handleArrayType(st, o, d, ptr, decl.elt, pkgName)
                    [] decl.kind = "map" ->
                            handleMapType(st, o, d, fieldName, ptr, decl.elt, pkgName)
                    [] OTHER -> Ret(st, 0)}})

\* the switch on typeSpec.Type and the registration in Components.Schemas
Populate(st, o, d, ptr, decl, pkgName, fieldName) ==
    The({IF Failed(r) THEN [r EXCEPT !.ret = 0]
         ELSE IF ReplaceBackslash(r.s.heap[ptr].ID) \in DOMAIN r.s.Schemas THEN Ret(r.s, ptr)
         ELSE Ret([r.s EXCEPT !.Schemas =
                        MapSet(@, ReplaceBackslash(r.s.heap[ptr].ID), ptr)], ptr)
         : r \in {CASE decl.kind = "struct" ->
                            handleStructType(st, o, d, ptr, decl.fields, pkgName)
                    [] decl.kind = "array" ->
                            handleArrayType(st, o, d, ptr, decl.elt, pkgName)
                    [] decl.kind = "map" ->
                            handleMapType(st, o, d, fieldName, ptr, decl.elt, pkgName)
                    [] OTHER -> Ret(st, 0)}})

\* a name without a dot: the current package, then every known package
ResolveUnqualified(st, o, d, ptr, pkgName, fieldName, t) ==
    The({IF ~getTypeSpecExists(st, pkg, t.name) THEN Crash(st, "fatal")
         ELSE Populate(Memoize(st, ptr, pkg, GenSchemaObjectID(t),
                               getTypeSpec(st, pkg, t.name)),
                       o, d, ptr, getTypeSpec(st, pkg, t.name), pkg, fieldName)
         : pkg \in {IF getTypeSpecExists(st, pkgName, t.name) THEN pkgName
                    ELSE ScanKnownNamePkg(st, o, t.name)}})

\* a dotted name: the guessed package, then the import aliases of the current one
ResolveQualified(st, o, d, ptr, pkgName, fieldName, t) ==
    LET guess == GuessPkgName(t.qual)
        id == GenSchemaObjectID(Plain(t.name))
    IN  IF getTypeSpecExists(st, guess, t.name)
        THEN Populate(Memoize(st, ptr, guess, id, getTypeSpec(st, guess, t.name)),
                      o, d, ptr, getTypeSpec(st, guess, t.name), guess, fieldName)
        ELSE IF ~AliasFound(pkgName, guess) THEN Ret(st, ptr)
        ELSE LET alias == PkgNameImportedPkgAlias[pkgName][guess][1]
             IN  IF ~getTypeSpecExists(st, alias, t.name)
                 THEN RetErr(st, ptr, <<"can not find definition of guess", t.name>>)
                 ELSE IF ~getTypeSpec(st, alias, t.name).doc
                 THEN Crash([st EXCEPT !.heap[ptr].PkgName = alias,
                                       !.heap[ptr].ID = id,
                                       !.KnownIDSchema = MapSet(@, id, ptr)],
                            "panic")
                 ELSE Populate(Memoize(st, ptr, alias, id, getTypeSpec(st, alias, t.name)),
                               o, d, ptr, getTypeSpec(st, alias, t.name), alias, fieldName)

\* "[]T": the element is resolved first and the memo is consulted afterwards
ResolveArray(st, o, d, ptr, pkgName, fieldName, t) ==
    The({IF Failed(r) THEN [r EXCEPT !.ret = 0]
         ELSE IF GenSchemaObjectID(StripPrefix(t)) \in DOMAIN r.s.KnownIDSchema
         THEN Ret([Alloc(r.s, RefTo(r.s,
                        r.s.heap[r.s.KnownIDSchema[GenSchemaObjectID(StripPrefix(t))]].ID))
                        EXCEPT !.heap[ptr].Items = NewPtr(r.s)], ptr)
         ELSE Ret([r.s EXCEPT !.heap[ptr].Items = r.ret], ptr)
         : r \in {parseSchemaObject([st EXCEPT !.heap[ptr].Type = TypeArray],
                                    o, d - 1, pkgName, fieldName, StripPrefix(t))}})

\* "map[]T": the memo is consulted first and the element resolved on a miss
ResolveMap(st, o, d, ptr, pkgName, fieldName, t) ==
    LET item == StripPrefix(t)
        s1 == [st EXCEPT !.heap[ptr].Type = TypeObject]
        key == GenSchemaObjectID(item)
        name == IF fieldName = "" THEN DefaultFieldName ELSE fieldName
    IN  IF key \in DOMAIN s1.KnownIDSchema
        THEN Ret([Alloc(s1, RefTo(s1, s1.heap[s1.KnownIDSchema[key]].ID))
                        EXCEPT !.heap[ptr].Items = NewPtr(s1)], ptr)
        ELSE The({IF Failed(r) THEN [r EXCEPT !.ret = 0]
                  ELSE Ret([r.s EXCEPT !.heap[ptr].hasProps = TRUE,
                                       !.heap[ptr].Properties = OrderedSet(<<>>, name, r.ret)],
                           ptr)
                  : r \in {parseSchemaObject(s1, o, d - 1, pkgName, fieldName, item)}})

parseSchemaObject(st, o, d, pkgName, fieldName, t) ==
    IF d <= 0 THEN Crash(st, "overflow")
    ELSE
    LET ptr == NewPtr(st)
        s0 == Alloc(st, SchemaObject)
    IN  CASE HasArrayPrefix(t) -> ResolveArray(s0, o, d, ptr, pkgName, fieldName, t)
          [] HasMapPrefix(t) -> ResolveMap(s0, o, d, ptr, pkgName, fieldName, t)
          [] t = GoTypeTime ->
                Ret([s0 EXCEPT !.heap[ptr].Type = "string",
                               !.heap[ptr].Format = "date-time"], ptr)
          [] t.pre = <<>> /\ t.qual = <<>> /\ t.name = "interface{}" -> Ret(s0, ptr)
          [] IsGoTypeOASType(t) ->
                Ret([s0 EXCEPT !.heap[ptr].Type = GoTypesOASTypes[t.name]], ptr)
          [] OTHER ->
                IF t.qual = <<>> /\ t.name /= GoTypeIgnored
                THEN ResolveUnqualified(s0, o, d - 1, ptr, pkgName, fieldName, t)
                ELSE ResolveQualified(s0, o, d - 1, ptr, pkgName, fieldName, t)

(***************************************************************************)
(* The struct-tag constraint merger.                                       *)
(***************************************************************************)
ExampleOf(kind, v) == [set |-> TRUE, kind |-> kind, v |-> v]

DecimalText(text) == IF Atoi(text) = 0 THEN "0" ELSE text

\* a coerced example is never nil, so it always clears the $ref
handleExample(tag, node) ==
    LET ex == TagGet(tag, "example")
        value == CASE node.Type = "boolean" ->
                        ExampleOf("bool", IF ParseBool(ex) THEN "true" ELSE "false")
                   [] node.Type = "integer" -> ExampleOf("int", DecimalText(ex))
                   [] node.Type = "number" -> ExampleOf("float", DecimalText(ex))
                   [] node.Type = TypeArray ->
                        IF ex \in JSONLists THEN ExampleOf("list", ex)
                        ELSE ExampleOf("string", MessageInvalidExample)
                   [] node.Type = TypeObject ->
                        IF ex \in JSONObjects THEN ExampleOf("map", ex)
                        ELSE ExampleOf("string", MessageInvalidExample)
                   [] OTHER -> ExampleOf("string", ex)
    IN  IF ex = "" THEN node ELSE [node EXCEPT !.Example = value, !.Ref = ""]

IsNumeric(node) == node.Type \in {"integer", "number"}

\* the tag whose value a non-numeric field makes unparsable, "" if none
RangeError(tag, node) ==
    CASE TagGet(tag, "multipleOf") /= "" /\ ~IsNumeric(node) -> "multipleOf"
      [] TagGet(tag, "minimum") /= "" /\ ~IsNumeric(node) -> "minimum"
      [] TagGet(tag, "maximum") /= "" /\ ~IsNumeric(node) -> "maximum"
      [] OTHER -> ""

handleMultipleOf(tag, node) ==
    IF TagGet(tag, "multipleOf") /= "" /\ IsNumeric(node)
    THEN [node EXCEPT !.MultipleOf = Atoi(TagGet(tag, "multipleOf"))] ELSE node

\* the four tags of handleRange, each on the schema the one before left
RangeMinimum(tag, node) ==
    IF TagGet(tag, "minimum") /= "" /\ IsNumeric(node)
    THEN [node EXCEPT !.Minimum = Atoi(TagGet(tag, "minimum"))] ELSE node

RangeMaximum(tag, node) ==
    IF TagGet(tag, "maximum") /= "" /\ IsNumeric(node)
    THEN [node EXCEPT !.Maximum = Atoi(TagGet(tag, "maximum"))] ELSE node

RangeExclusiveMinimum(tag, node) ==
    IF TagGet(tag, "exclusiveMinimum") /= ""
    THEN [node EXCEPT !.ExclusiveMinimum = ParseBool(TagGet(tag, "exclusiveMinimum"))]
    ELSE node

RangeExclusiveMaximum(tag, node) ==
    IF TagGet(tag, "exclusiveMaximum") /= ""
    THEN [node EXCEPT !.ExclusiveMaximum = ParseBool(TagGet(tag, "exclusiveMaximum"))]
    ELSE node

handleRange(tag, node) ==
    RangeExclusiveMaximum(tag,
        RangeExclusiveMinimum(tag, RangeMaximum(tag, RangeMinimum(tag, node))))

handleLengthMinMax(tag, node) ==
    LET n1 == IF TagGet(tag, "minLength") /= ""
              THEN [node EXCEPT !.MinLength = Atoi(TagGet(tag, "minLength"))] ELSE node
    IN  IF TagGet(tag, "maxLength") /= ""
        THEN [n1 EXCEPT !.MaxLength = Atoi(TagGet(tag, "maxLength"))] ELSE n1

handleItemMinMax(tag, node) ==
    LET n1 == IF TagGet(tag, "minItems") /= ""
              THEN [node EXCEPT !.MinItems = Atoi(TagGet(tag, "minItems"))] ELSE node
    IN  IF TagGet(tag, "maxItems") /= ""
        THEN [n1 EXCEPT !.MaxItems = Atoi(TagGet(tag, "maxItems"))] ELSE n1

handlePropertyMinMax(tag, node) ==
    LET n1 == IF TagGet(tag, "minProperties") /= ""
              THEN [node EXCEPT !.MinProperties = Atoi(TagGet(tag, "minProperties"))] ELSE node
    IN  IF TagGet(tag, "maxProperties") /= ""
        THEN [n1 EXCEPT !.MaxProperties = Atoi(TagGet(tag, "maxProperties"))] ELSE n1

handleEnumTag(tag, node) ==
    IF TagList(tag, "enum") /= <<>> THEN [node EXCEPT !.Enum = TagList(tag, "enum")] ELSE node

\* the tags parseFieldTags reads itself
DescriptionTag(tag, node) ==
    IF TagGet(tag, "description") /= ""
    THEN [node EXCEPT !.Description = TagGet(tag, "description")] ELSE node

PatternTag(tag, node) ==
    IF TagGet(tag, "pattern") /= "" THEN [node EXCEPT !.Pattern = TagGet(tag, "pattern")]
    ELSE node

UniqueItemsTag(tag, node) ==
    IF TagGet(tag, "uniqueItems") /= ""
    THEN [node EXCEPT !.UniqueItems = ParseBool(TagGet(tag, "uniqueItems"))] ELSE node

ArrayTags(tag, node) ==
    IF node.Type = TypeArray THEN UniqueItemsTag(tag, handleItemMinMax(tag, node)) ELSE node

ObjectTags(tag, node) ==
    IF node.Type = TypeObject THEN handlePropertyMinMax(tag, node) ELSE node

\* parseFieldTags from the example to the enum: the tags that resolve no type
ScalarTags(tag, node) ==
    handleEnumTag(tag,
        ObjectTags(tag,
            ArrayTags(tag,
                handleLengthMinMax(tag,
                    PatternTag(tag,
                        handleRange(tag,
                            handleMultipleOf(tag,
                                DescriptionTag(tag, handleExample(tag, node)))))))))

AppendRef(node, which, ref) ==
    CASE which = "allOf" -> [node EXCEPT !.AllOf = Append(@, ref)]
      [] which = "oneOf" -> [node EXCEPT !.OneOf = Append(@, ref)]
      [] which = "anyOf" -> [node EXCEPT !.AnyOf = Append(@, ref)]

\* the discriminator check of handleOneOfTag on the resolved member
MissesDiscriminator(field, member) ==
    /\ field.Discriminator /= ""
    /\ member.hasProps
    /\ ~HasKey(member.Properties, field.Discriminator)

\* the loops of handleAllOfTag, handleOneOfTag and handleAnyOfTag over the
\* member names: fp is the field's schema, i the next member
UnionLoop(st, o, d, fp, which, names, i) ==
    IF i > Len(names) THEN Ret(st, 0)
    ELSE The({IF Failed(r)
              THEN Wrap([r EXCEPT !.ret = 0],
                        <<"unable to find object with name", TypeString(names[i])>>)
              ELSE IF which = "oneOf" /\ MissesDiscriminator(r.s.heap[fp], r.s.heap[r.ret])
              THEN RetErr(r.s, 0, <<"unable to find discriminator field",
                                    r.s.heap[fp].Discriminator, "in schema", r.s.heap[r.ret].ID>>)
              ELSE UnionLoop([r.s EXCEPT !.heap[fp] =
                                 AppendRef(@, which, AddSchemaRefLinkPrefix(r.s.heap[r.ret].ID))],
                             o, d, fp, which, names, i + 1)
              : r \in {parseSchemaObject(st, o, d, NoPkg, "", names[i])}})

handleAllOfTag(st, o, d, tag, fp) == UnionLoop(st, o, d, fp, "allOf", TagList(tag, "allOf"), 1)

handleOneOfTag(st, o, d, tag, fp) ==
    IF TagList(tag, "oneOf") = <<>> THEN Ret(st, 0)
    ELSE UnionLoop([st EXCEPT !.heap[fp].Discriminator = TagGet(tag, "discriminator")],
                   o, d, fp, "oneOf", TagList(tag, "oneOf"), 1)

handleAnyOfTag(st, o, d, tag, fp) == UnionLoop(st, o, d, fp, "anyOf", TagList(tag, "anyOf"), 1)

\* parseFieldTags with one entry in the required list for the tag and one
\* for the json token
parseFieldTagsPerMark(st, o, d, name, tag, sp, fp, isRequired) ==
    LET s0 == IF TagHas(tag, "required")
              THEN [st EXCEPT !.heap[sp].Required = Append(@, name)] ELSE st
        s1 == IF isRequired
              THEN [s0 EXCEPT !.heap[sp].Required = Append(@, name)] ELSE s0
        bad == RangeError(tag, handleExample(tag, st.heap[fp]))
    IN  IF bad /= "" THEN RetErr(s1, 0, <<"unable to parse value", bad, TagGet(tag, bad)>>)
        ELSE The({IF Failed(r1) THEN r1
                  ELSE The({IF Failed(r2) THEN r2
                            ELSE handleAnyOfTag(r2.s, o, d, tag, fp)
                            : r2 \in {handleOneOfTag(r1.s, o, d, tag, fp)}})
                  : r1 \in {handleAllOfTag([s1 EXCEPT !.heap[fp] = ScalarTags(tag, @)],
                                           o, d, tag, fp)}})

\* sp is the struct's schema, fp the field's
parseFieldTags(st, o, d, name, tag, sp, fp, isRequired) ==
    LET s1 == IF TagHas(tag, "required") \/ isRequired
              THEN [st EXCEPT !.heap[sp].Required = Append(@, name)] ELSE st
        bad == RangeError(tag, handleExample(tag, st.heap[fp]))
    IN  IF bad /= "" THEN RetErr(s1, 0, <<"unable to parse value", bad, TagGet(tag, bad)>>)
        ELSE The({IF Failed(r1) THEN r1
                  ELSE The({IF Failed(r2) THEN r2
                            ELSE handleAnyOfTag(r2.s, o, d, tag, fp)
                            : r2 \in {handleOneOfTag(r1.s, o, d, tag, fp)}})
                  : r1 \in {handleAllOfTag([s1 EXCEPT !.heap[fp] = ScalarTags(tag, @)],
                                           o, d, tag, fp)}})

\* the schema of a field of type t, before its tags are read
FieldSchema(st, o, d, pkgName, t) ==
    CASE HasArrayPrefix(t) ->
            Wrap(parseSchemaObject(st, o, d, pkgName, "", t),
                 <<"could not parse type as array", TypeString(t)>>)
      [] HasMapPrefix(t) ->
            Wrap(parseSchemaObject(st, o, d, pkgName, "", t),
                 <<"could not parse type as map", TypeString(t)>>)
      [] t = GoTypeTime ->
            Wrap(parseSchemaObject(st, o, d, pkgName, "", t),
                 <<"could not parse type as time.Time", TypeString(t)>>)
      [] t.pre = <<>> /\ t.qual = <<>> /\ t.name = "interface{}" ->
            Wrap(parseSchemaObject(st, o, d, pkgName, "", t),
                 <<"could not parse type as interface{}", TypeString(t)>>)
      [] OTHER ->
            IF ~IsBasicGoType(t)
            THEN The({IF Failed(r)
                      THEN Wrap([r EXCEPT !.ret = 0],
                                <<"could not register type", TypeString(t)>>)
                      ELSE Ret(Alloc(r.s,
                                [SchemaObject EXCEPT
                                    !.ID = r.ret,
                                    !.Items = IF r.ret \in DOMAIN r.s.KnownIDSchema
                                              THEN r.s.heap[r.s.KnownIDSchema[r.ret]].Items
                                              ELSE 0,
                                    !.Ref = AddSchemaRefLinkPrefix(r.ret)]),
                               NewPtr(r.s))
                      : r \in {registerType(st, o, d, pkgName, t)}})
            ELSE IF IsGoTypeOASType(t)
            THEN Ret(Alloc(st, [SchemaObject EXCEPT !.Type = GoTypesOASTypes[t.name]]),
                     NewPtr(st))
            ELSE Ret(Alloc(st, SchemaObject), NewPtr(st))

KeywordRequired == "required"

\* the loop over the comma-separated values of the json tag text
RECURSIVE JsonScan(_, _)
JsonScan(values, acc) ==
    IF values = <<>> \/ acc.disabled THEN acc
    ELSE LET v == Head(values)
         IN  JsonScan(Tail(values),
                CASE v = "-" -> [acc EXCEPT !.disabled = TRUE]
                  [] v = KeywordRequired -> [acc EXCEPT !.isRequired = TRUE]
                  [] v /= "" /\ v /= "omitempty" -> [acc EXCEPT !.name = v]
                  [] OTHER -> acc)

\* tagText after the goas tag, and after the json tag, was looked at
GoasValues(tag) == IF TagList(tag, "goas") /= <<>> THEN TagList(tag, "goas") ELSE <<"">>

JsonValues(tag) == IF TagList(tag, "json") /= <<>> THEN TagList(tag, "json") ELSE GoasValues(tag)

Disable(st, sp, name) ==
    [st EXCEPT !.heap[sp].DisabledFieldNames = @ \cup {name}]

\* the body of astFieldsLoop with the tags of the field read before the
\* opt-out marker is looked for
FieldTagsOptOutLast(st, o, d, sp, fp, f) ==
    LET s1 == [st EXCEPT !.heap[fp].FieldName = f.name]
        scan == JsonScan(JsonValues(f.tag),
                         [disabled |-> FALSE, isRequired |-> FALSE, name |-> f.name])
    IN  IF f.name \in st.heap[sp].DisabledFieldNames THEN Ret(s1, 0)
        ELSE IF ~f.hasTag
        THEN Ret([s1 EXCEPT !.heap[sp].Properties = OrderedSet(@, f.name, fp)], 0)
        ELSE The({IF Failed(r) THEN r
                  ELSE IF "-" \in {GoasValues(f.tag)[i] : i \in DOMAIN GoasValues(f.tag)}
                  THEN Ret([Disable(r.s, sp, f.name) EXCEPT !.heap[fp].Deprecated = TRUE], 0)
                  ELSE IF scan.disabled
                  THEN Ret([Disable(r.s, sp, scan.name) EXCEPT !.heap[fp].Deprecated = TRUE], 0)
                  ELSE Ret([r.s EXCEPT !.heap[sp].Properties = OrderedSet(@, scan.name, fp)], 0)
                  : r \in {parseFieldTags(s1, o, d, scan.name, f.tag, sp, fp,
                                          scan.isRequired)}})

\* the body of astFieldsLoop for the field f once its schema fp is known
FieldTags(st, o, d, sp, fp, f) ==
    LET s1 == [st EXCEPT !.heap[fp].FieldName = f.name]
        scan == JsonScan(JsonValues(f.tag),
                         [disabled |-> FALSE, isRequired |-> FALSE, name |-> f.name])
    IN  IF f.name \in st.heap[sp].DisabledFieldNames THEN Ret(s1, 0)
        ELSE IF ~f.hasTag
        THEN Ret([s1 EXCEPT !.heap[sp].Properties = OrderedSet(@, f.name, fp)], 0)
        ELSE IF "-" \in {GoasValues(f.tag)[i] : i \in DOMAIN GoasValues(f.tag)}
        THEN Ret([Disable(s1, sp, f.name) EXCEPT !.heap[fp].Deprecated = TRUE], 0)
        ELSE IF scan.disabled
        THEN Ret([Disable(s1, sp, scan.name) EXCEPT !.heap[fp].Deprecated = TRUE], 0)
        ELSE The({IF Failed(r) THEN r
                  ELSE Ret([r.s EXCEPT !.heap[sp].Properties = OrderedSet(@, scan.name, fp)], 0)
                  : r \in {parseFieldTags(s1, o, d, scan.name, f.tag, sp, fp,
                                          scan.isRequired)}})

\* parseSchemaPropertiesFromStructFields from the field i on
FieldsLoop(st, o, d, pkgName, sp, fields, i) ==
    IF i > Len(fields) THEN Ret(st, 0)
    ELSE IF fields[i].name = "" THEN FieldsLoop(st, o, d, pkgName, sp, fields, i + 1)
    ELSE The({IF Failed(r1) THEN [r1 EXCEPT !.ret = 0]
              ELSE The({IF Failed(r2) THEN r2
                        ELSE FieldsLoop(r2.s, o, d, pkgName, sp, fields, i + 1)
                        : r2 \in {FieldTags(r1.s, o, d, sp, r1.ret, fields[i])}})
              : r1 \in {FieldSchema(st, o, d, pkgName, fields[i].type)}})

(***************************************************************************)
(* Comment lines.  A line is kept as the attribute and the groups its      *)
(* pattern captures; ok tells whether the pattern matched at all.          *)
(***************************************************************************)
Hidden == [attr |-> "@hidden"]

ID(value) == [attr |-> "@id", value |-> value]

Title(value) == [attr |-> "@title", value |-> value]

Description(value) == [attr |-> "@description", value |-> value]

Tag(value) == [attr |-> "@tag", value |-> value]

Security(value) == [attr |-> "@security", value |-> value]

ExternalDoc(ok, url, desc) == [attr |-> "@externaldoc", ok |-> ok, url |-> url, desc |-> desc]

Router(path, method) == [attr |-> "@router", ok |-> TRUE, path |-> path, method |-> method]

BadRouter == [attr |-> "@router", ok |-> FALSE, path |-> "", method |-> ""]

Param(name, in, goType, required, desc) ==
    [attr |-> "@param", ok |-> TRUE, name |-> name, in |-> in, goType |-> goType,
     required |-> required, desc |-> desc]

BadParam == [attr |-> "@param", ok |-> FALSE, name |-> "", in |-> "", goType |-> Plain(""),
             required |-> "", desc |-> ""]

NoType == Plain("")

Response(attr, status, jsonType, goType, desc) ==
    [attr |-> attr, ok |-> TRUE, status |-> status, jsonType |-> jsonType,
     goType |-> goType, desc |-> desc]

Header(status, name, jsonType, goType, desc) ==
    [attr |-> "@header", ok |-> TRUE, status |-> status, name |-> name,
     jsonType |-> jsonType, goType |-> goType, desc |-> desc]

Prose == [attr |-> "listPets"]

(***************************************************************************)
(* Operations.                                                             *)
(***************************************************************************)
ContentTypeText == "text/plain"

ContentTypeJSON == "application/json"

ContentTypeForm == "multipart/form-data"

NoContent == [x \in {} |-> 0]

NilRequestBody == [set |-> FALSE, Content |-> NoContent, Required |-> FALSE]

OperationObject ==
    [Summary |-> "", Description |-> "", Parameters |-> <<>>,
     RequestBody |-> NilRequestBody, Responses |-> [x \in {} |-> 0],
     OperationID |-> "", Tags |-> <<>>, ExternalDocs |-> <<>>, Security |-> <<>>]

Verbs == {"GET", "POST", "PATCH", "PUT", "DELETE", "OPTIONS", "HEAD", "TRACE"}

\* &types.PathItemObject{}: no operation under any verb
PathItemObject == [v \in Verbs |-> 0]

\* strings.ToUpper on the method names of the model
ToUpper(method) ==
    CASE method = "get" -> "GET"
      [] method = "post" -> "POST"
      [] method = "patch" -> "PATCH"
      [] method = "put" -> "PUT"
      [] method = "delete" -> "DELETE"
      [] method = "options" -> "OPTIONS"
      [] method = "head" -> "HEAD"
      [] method = "trace" -> "TRACE"
      [] OTHER -> method

\* the state a comment block is parsed in: the parser state s, the operation
\* being built, Paths, the known operation IDs, the error and the crash
Ctx(st, op, paths, ids) ==
    [s |-> st, op |-> op, paths |-> paths, ids |-> ids, err |-> <<>>, crash |-> ""]

Fail(x, err) == [x EXCEPT !.err = err]

\* the outcome r of a resolution brought into the block's state
After(x, r) == [x EXCEPT !.s = r.s, !.err = r.err, !.crash = r.crash]

\* util.IsInStringList is not part of the sources at hand; its test shows membership
IsInStringList(list, s) == \E i \in DOMAIN list : list[i] = s

\* validateOperationID without the scan of the known IDs
validateOperationIDUnchecked(x, id) == [x EXCEPT !.ids = Append(@, id)]

validateOperationID(x, id) ==
    IF \E i \in DOMAIN x.ids : x.ids[i] = id
    THEN Fail(x, <<"operationID is already in use", id>>)
    ELSE [x EXCEPT !.ids = Append(@, id)]

\* the format table is not part of the sources at hand; the tests show string -> string
GoTypesOASFormats(name) == name

\* strconv.Atoi succeeds on the status texts of the model that are decimal
IsDecimal(text) == text \in {"200", "201", "204", "400", "404", "500"}

IsTruthy(text) == text \in {"true", "TRUE", "True", KeywordRequired}

\* a types.SchemaObject literal or a copy of *schema placed in the heap
Put(x, node) == [x EXCEPT !.s = Alloc(@, node)]

FormBody(required) ==
    [set |-> TRUE, Content |-> [c \in {ContentTypeForm} |-> 0], Required |-> required]

\* file, files and form parameters; handled tells whether the line was one
handleFileOrForm(x, l, required) ==
    LET fresh == ~x.op.RequestBody.set
        form == NewPtr(x.s)
        x1 == IF fresh
              THEN [Put(x, [SchemaObject EXCEPT !.Type = TypeObject, !.hasProps = TRUE])
                        EXCEPT !.op.RequestBody =
                            [FormBody(required) EXCEPT !.Content[ContentTypeForm] = form]]
              ELSE x
        has == ContentTypeForm \in DOMAIN x1.op.RequestBody.Content
        fp == x1.op.RequestBody.Content[ContentTypeForm]
        prop == NewPtr(x1.s)
        item == NewPtr(x1.s) + 1
        set(x2) == [x2 EXCEPT !.s.heap[fp].Properties = OrderedSet(@, l.name, prop)]
    IN  CASE l.in = "file" ->
                IF ~has THEN [x1 EXCEPT !.crash = "panic"]
                ELSE set(Put(x1, [SchemaObject EXCEPT !.Type = "string", !.Format = "binary",
                                                      !.Description = l.desc]))
          [] l.in = "files" ->
                IF ~has THEN [x1 EXCEPT !.crash = "panic"]
                ELSE set(Put(Put(x1, [SchemaObject EXCEPT !.Type = TypeArray, !.Items = item,
                                                          !.Description = l.desc]),
                             [SchemaObject EXCEPT !.Type = "string", !.Format = "binary"]))
          [] l.in = "form" /\ IsGoTypeOASType(l.goType) ->
                IF ~has THEN [x1 EXCEPT !.crash = "panic"]
                ELSE set(Put(x1, [SchemaObject EXCEPT
                                    !.Type = GoTypesOASTypes[l.goType.name],
                                    !.Format = GoTypesOASFormats(l.goType.name),
                                    !.Description = l.desc]))
          [] OTHER -> x1

\* path, query, header and cookie parameters
handleParam(x, o, pkgName, l, required) ==
    LET param(ptr) == [Name |-> l.name, In |-> l.in, Description |-> l.desc,
                       Required |-> (required \/ l.in = "path"), Schema |-> ptr]
    IN  IF l.goType = GoTypeTime
        THEN The({IF r.crash /= "" THEN After(x, r)
                  ELSE IF r.err /= <<>>
                  THEN [After(x, r) EXCEPT !.err = <<"parseResponseComment cannot parse goType",
                                                     TypeString(l.goType)>>]
                  ELSE [After(x, r) EXCEPT !.op.Parameters = Append(@, param(r.ret))]
                  : r \in {parseSchemaObject(x.s, o, MaxDepth, pkgName, l.name, l.goType)}})
        ELSE IF IsGoTypeOASType(l.goType)
        THEN [Put(x, [SchemaObject EXCEPT !.Type = GoTypesOASTypes[l.goType.name],
                                          !.Format = GoTypesOASFormats(l.goType.name)])
                EXCEPT !.op.Parameters = Append(@, param(NewPtr(x.s)))]
        ELSE x

\* the schema of a named body or response type: a string for a basic type
\* name, else a reference to the registered ID
NamedSchema(typeName) ==
    IF typeName \in basicGoTypes THEN [SchemaObject EXCEPT !.Type = "string"]
    ELSE [SchemaObject EXCEPT !.Ref = AddSchemaRefLinkPrefix(typeName)]

HasContainerPrefix(t) == HasArrayPrefix(t) \/ HasMapPrefix(t)

parseParamComment(x, o, pkgName, l) ==
    LET required == IsTruthy(l.required)
        x1 == IF x.op.RequestBody.set THEN x
              ELSE [x EXCEPT !.op.RequestBody =
                        [set |-> TRUE, Content |-> NoContent, Required |-> required]]
        body(x2, ptr) == [x2 EXCEPT !.op.RequestBody.Content = MapSet(@, ContentTypeJSON, ptr)]
    IN  IF ~l.ok THEN Fail(x, <<"parseParamComment can not parse param comment">>)
        ELSE IF l.in \in {"file", "files", "form"} THEN handleFileOrForm(x, l, required)
        ELSE IF l.in /= "body"
        THEN The({IF x3.err /= <<>> THEN Fail(x3, <<"unable to handle params">> \o x3.err)
                  ELSE x3
                  : x3 \in {handleParam(x, o, pkgName, l, required)}})
        ELSE IF HasContainerPrefix(l.goType) \/ l.goType = GoTypeTime
        THEN The({IF r1.crash /= "" THEN After(x1, r1)
                  ELSE IF r1.err /= <<>>
                  THEN [After(x1, r1) EXCEPT !.err = <<"parseResponseComment cannot parse goType",
                                                       TypeString(l.goType)>>]
                  ELSE body(Put(After(x1, r1), r1.s.heap[r1.ret]), NewPtr(r1.s))
                  : r1 \in {parseSchemaObject(x1.s, o, MaxDepth, pkgName, l.name, l.goType)}})
        ELSE The({IF Failed(r2) THEN After(x1, r2)
                  ELSE body(Put(After(x1, r2), NamedSchema(r2.ret)), NewPtr(r2.s))
                  : r2 \in {registerType(x1.s, o, MaxDepth, pkgName, l.goType)}})

NoHeaders == [x \in {} |-> 0]

ResponseObject == [Description |-> "", Content |-> NoContent, Headers |-> NoHeaders]

EqualFoldDefault(status) == status \in {"default", "Default", "DEFAULT"}

parseResponseComment(x, o, pkgName, l) ==
    LET store(x2, ctype, ptr) ==
            [x2 EXCEPT !.op.Responses =
                MapSet(@, l.status, [ResponseObject EXCEPT
                                        !.Description = l.desc,
                                        !.Content = MapSet(NoContent, ctype, ptr)])]
    IN  IF ~l.ok THEN Fail(x, <<"parseResponseComment can not parse response comment">>)
        ELSE IF ~EqualFoldDefault(l.status) /\ ~IsDecimal(l.status)
        THEN Fail(x, <<"parseResponseComment: http status must be int", l.status>>)
        ELSE IF l.jsonType \notin {"", TypeObject, TypeArray, "{object}", "{array}"}
        THEN Fail(x, <<"parseResponseComment: invalid jsonType", l.jsonType>>)
        ELSE IF l.goType = NoType
        THEN [x EXCEPT !.op.Responses =
                MapSet(@, l.status, [ResponseObject EXCEPT !.Description = l.desc])]
        ELSE IF HasContainerPrefix(l.goType)
        THEN The({IF r1.crash /= "" THEN After(x, r1)
                  ELSE IF r1.err /= <<>>
                  THEN [After(x, r1) EXCEPT !.err = <<"parseResponseComment: cannot parse goType",
                                                      TypeString(l.goType)>>]
                  ELSE store(Put(After(x, r1), r1.s.heap[r1.ret]), ContentTypeJSON,
                             NewPtr(r1.s))
                  : r1 \in {parseSchemaObject(x.s, o, MaxDepth, pkgName, "", l.goType)}})
        ELSE The({IF Failed(r2) THEN After(x, r2)
                  ELSE store(Put(After(x, r2), NamedSchema(r2.ret)),
                             IF r2.ret \in basicGoTypes THEN ContentTypeText
                             ELSE ContentTypeJSON,
                             NewPtr(r2.s))
                  : r2 \in {registerType(x.s, o, MaxDepth, pkgName, l.goType)}})

\* the header is written to the response stored under the status, or to a
\* fresh response that is stored nowhere; the type registered for a header
\* without a container prefix is the third group of the pattern, the jsonType
parseResponseHeader(x, o, pkgName, l) ==
    LET stored == l.status \in DOMAIN x.op.Responses
        head(x2, ptr) ==
            IF stored
            THEN [x2 EXCEPT !.op.Responses[l.status].Headers =
                        MapSet(@, l.name, [Description |-> l.desc, Schema |-> ptr])]
            ELSE x2
    IN  IF ~l.ok THEN Fail(x, <<"parseResponseHeader can not parse response header">>)
        ELSE IF EqualFoldDefault(l.status) /\ ~IsDecimal(l.status)
        THEN Fail(x, <<"parseResponseHeader: http status must be int", l.status>>)
        ELSE IF l.goType = NoType THEN x
        ELSE IF HasContainerPrefix(l.goType)
        THEN The({IF r1.crash /= "" THEN After(x, r1)
                  ELSE IF r1.err /= <<>>
                  THEN [After(x, r1) EXCEPT !.err = <<"parseResponseHeader: cannot parse goType",
                                                      TypeString(l.goType)>>]
                  ELSE head(After(x, r1), r1.ret)
                  : r1 \in {parseSchemaObject(x.s, o, MaxDepth, pkgName, "", l.goType)}})
        ELSE The({IF Failed(r2) THEN After(x, r2)
                  ELSE head(Put(After(x, r2), NamedSchema(r2.ret)), NewPtr(r2.s))
                  : r2 \in {registerType(x.s, o, MaxDepth, pkgName, Plain(l.jsonType))}})

\* parseRouteComment attaching the operation only to the path entry it creates
parseRouteCommentNewPath(x, op, l) ==
    LET verb == ToUpper(l.method)
    IN  IF ~l.ok THEN Fail(x, <<"can not parse router comment">>)
        ELSE IF l.path \in DOMAIN x.paths THEN x
        ELSE [x EXCEPT !.paths =
                MapSet(@, l.path, IF verb \in Verbs THEN [PathItemObject EXCEPT ![verb] = op]
                                  ELSE PathItemObject)]

\* op is the pointer of the operation being built
parseRouteComment(x, op, l) ==
    LET item == IF l.path \in DOMAIN x.paths THEN x.paths[l.path] ELSE PathItemObject
        verb == ToUpper(l.method)
    IN  IF ~l.ok THEN Fail(x, <<"can not parse router comment">>)
        ELSE [x EXCEPT !.paths =
                MapSet(@, l.path, IF verb \in Verbs THEN [item EXCEPT ![verb] = op] ELSE item)]

parseExternalDocComment(x, l) ==
    IF ~l.ok THEN Fail(x, <<"parseExternalDocComment can not parse externaldoc comment">>)
    ELSE [x EXCEPT !.op.ExternalDocs = <<l.url, l.desc>>]

TrimJoin(a, b) == IF a = "" THEN b ELSE IF b = "" THEN a ELSE a \o " " \o b

\* one turn of the loop of parseOperation over the lines of the block
ParseLine(x, o, pkgName, op, l) ==
    CASE l.attr = "@title" -> [x EXCEPT !.op.Summary = l.value]
      [] l.attr = "@description" -> [x EXCEPT !.op.Description = TrimJoin(@, l.value)]
      [] l.attr = "@param" -> parseParamComment(x, o, pkgName, l)
      [] l.attr = "@header" -> parseResponseHeader(x, o, pkgName, l)
      [] l.attr \in {"@success", "@failure"} -> parseResponseComment(x, o, pkgName, l)
      [] l.attr = "@id" ->
            LET x1 == validateOperationID(x, l.value)
            IN  IF x1.err /= <<>> THEN x1 ELSE [x1 EXCEPT !.op.OperationID = l.value]
      [] l.attr = "@externaldoc" -> parseExternalDocComment(x, l)
      [] l.attr \in {"@resource", "@tag"} ->
            LET resource == IF l.value = "" THEN "others" ELSE l.value
            IN  IF IsInStringList(x.op.Tags, resource) THEN x
                ELSE [x EXCEPT !.op.Tags = Append(@, resource)]
      [] l.attr \in {"@route", "@router"} -> parseRouteComment(x, op, l)
      [] l.attr = "@security" -> [x EXCEPT !.op.Security = Append(@, l.value)]
      [] OTHER -> x

RECURSIVE LinesLoop(_, _, _, _, _, _)
LinesLoop(x, o, pkgName, op, lines, i) ==
    IF i > Len(lines) \/ x.err /= <<>> \/ x.crash /= "" THEN x
    ELSE LinesLoop(ParseLine(x, o, pkgName, op, lines[i]), o, pkgName, op, lines, i + 1)

\* isHidden looking at the first line of the block only
isHiddenFirstLine(lines) == lines /= <<>> /\ lines[1].attr = "@hidden"

isHidden(lines) == \E i \in DOMAIN lines : lines[i].attr = "@hidden"

\* the packages under HandlerPath: no --handler-path is given
InHandlerPath(pkg) == TRUE

\* parseOperation on the block: x.op is the fresh operation, op its pointer
parseOperation(x, o, pkgName, op, lines) ==
    IF ~InModule(pkgName) \/ ~InHandlerPath(pkgName) THEN x
    ELSE IF isHidden(lines) THEN x
    ELSE LinesLoop(x, o, pkgName, op, lines, 1)

(***************************************************************************)
(* parseInfo: the directives of the comments of the main file.  A line is  *)
(* the attribute with the parts its pattern finds; ok tells whether the    *)
(* pattern matched, blank that nothing follows the attribute.              *)
(***************************************************************************)
InfoLine(attr, value) == [attr |-> attr, value |-> value]

BlankLine(attr) == [attr |-> attr, blank |-> TRUE]

Server(url, desc) == [attr |-> "@server", url |-> url, desc |-> desc]

ServerVariable(name, default, desc) ==
    [attr |-> "@servervariable", ok |-> TRUE, name |-> name, default |-> default,
     desc |-> desc, enum |-> <<>>]

BadServerVariable ==
    [attr |-> "@servervariable", ok |-> FALSE, name |-> "", default |-> "", desc |-> "",
     enum |-> <<>>]

DocTag(name, desc) == [attr |-> "@tag", ok |-> TRUE, name |-> name, desc |-> desc]

BadDocTag == [attr |-> "@tag", ok |-> FALSE, name |-> "", desc |-> ""]

SecurityScheme(fields) == [attr |-> "@securityscheme", fields |-> fields]

SecurityScope(fields) == [attr |-> "@securityscope", fields |-> fields]

DocSecurity(fields) == [attr |-> "@security", fields |-> fields]

\* the URLs of the model: one with a placeholder, which url.ParseRequestURI
\* rejects as a port, one it accepts, and one it rejects
URLPort == "https://a.io:{port}"

URLPlain == "https://b.io"

URLBad == "b.io"

ParseRequestURIFails(url) == url \in {URLPort, URLBad}

\* strings.Contains(url, "{name}")
ContainsPlaceholder(url, name) == url = URLPort /\ name = "port"

ContainsBrace(url) == url = URLPort

\* a nil map of server variables, and the one make() gives
NilVariables == [isNil |-> TRUE, vars |-> [x \in {} |-> 0]]

MadeVariables == [isNil |-> FALSE, vars |-> [x \in {} |-> 0]]

NoFlows == [x \in {} |-> 0]

SecuritySchemeObject ==
    [Type |-> "", Scheme |-> "", In |-> "", Name |-> "", Description |-> <<>>,
     OpenIDConnectURL |-> "", hasFlows |-> FALSE, OAuthFlows |-> NoFlows]

\* types.OpenAPIObject without Paths and Components.Schemas
OpenAPIObject ==
    [Info |-> [Title |-> "", Version |-> "", Description |-> "", TermsOfService |-> "",
               Contact |-> <<>>, License |-> <<>>],
     Servers |-> <<>>, Security |-> <<>>, SecuritySchemes |-> [x \in {} |-> 0],
     ExternalDocs |-> <<>>, Tags |-> <<>>]

InfoCtx(doc) == [doc |-> doc, scopes |-> [x \in {} |-> 0], err |-> <<>>, crash |-> ""]

Oauth2Kinds ==
    {"oauth2AuthCode", "oauth2Implicit", "oauth2ResourceOwnerCredentials",
     "oauth2ClientCredentials"}

\* strings.Contains(fields[1], "oauth2") on the type names of the model
ContainsOauth2(kind) == kind \in Oauth2Kinds \cup {"oauth2"}

FlowOf(kind) ==
    CASE kind = "oauth2AuthCode" -> "authorizationCode"
      [] kind = "oauth2Implicit" -> "implicit"
      [] kind = "oauth2ResourceOwnerCredentials" -> "password"
      [] OTHER -> "clientCredentials"

\* strings.Join(fields[n:], " "), kept as the list of its words
JoinFrom(fields, n) == SubSeq(fields, n + 1, Len(fields))

\* how many fields the switch on the type reads
FieldsRead(fields) ==
    CASE fields[2] = "http" -> IF Len(fields) >= 3 /\ fields[3] = "bearer" THEN 3 ELSE 4
      [] fields[2] = "apiKey" -> 4
      [] fields[2] = "openIdConnect" -> 3
      [] fields[2] = "oauth2AuthCode" -> 4
      [] fields[2] \in Oauth2Kinds -> 3
      [] OTHER -> 2

\* the scheme the switch on fields[1] leaves
FilledScheme(scheme, fields) ==
    CASE fields[2] = "http" ->
            IF fields[3] = "bearer"
            THEN [scheme EXCEPT !.Scheme = fields[3], !.Description = JoinFrom(fields, 3)]
            ELSE [scheme EXCEPT !.Scheme = fields[3], !.Name = fields[4],
                                !.Description = JoinFrom(fields, 4)]
      [] fields[2] = "apiKey" ->
            [scheme EXCEPT !.In = fields[3], !.Name = fields[4],
                           !.Description = JoinFrom(fields, 4)]
      [] fields[2] = "openIdConnect" ->
            [scheme EXCEPT !.OpenIDConnectURL = fields[3], !.Description = JoinFrom(fields, 3)]
      [] fields[2] = "oauth2AuthCode" ->
            [scheme EXCEPT !.OAuthFlows =
                MapSet(@, "authorizationCode",
                       [AuthorizationURL |-> fields[3], TokenURL |-> fields[4], Scopes |-> <<>>])]
      [] fields[2] = "oauth2Implicit" ->
            [scheme EXCEPT !.OAuthFlows =
                MapSet(@, "implicit",
                       [AuthorizationURL |-> fields[3], TokenURL |-> "", Scopes |-> <<>>])]
      [] fields[2] \in Oauth2Kinds ->
            [scheme EXCEPT !.OAuthFlows =
                MapSet(@, FlowOf(fields[2]),
                       [AuthorizationURL |-> "", TokenURL |-> fields[3], Scopes |-> <<>>])]
      [] OTHER -> scheme

\* parseSecurityScheme has no error to return: an index past the fields, or
\* the flows of a scheme that has none, end the process
parseSecurityScheme(c, fields) ==
    IF Len(fields) < 2 THEN [c EXCEPT !.crash = "panic"]
    ELSE IF Len(fields) < FieldsRead(fields) THEN [c EXCEPT !.crash = "panic"]
    ELSE IF /\ fields[2] \in Oauth2Kinds
            /\ fields[1] \in DOMAIN c.doc.SecuritySchemes
            /\ ~c.doc.SecuritySchemes[fields[1]].hasFlows
    THEN [c EXCEPT !.crash = "panic"]
    ELSE [c EXCEPT !.doc.SecuritySchemes =
            MapSet(@, fields[1],
                   FilledScheme(IF ~ContainsOauth2(fields[2])
                                THEN [SecuritySchemeObject EXCEPT !.Type = fields[2]]
                                ELSE IF fields[1] \in DOMAIN c.doc.SecuritySchemes
                                THEN c.doc.SecuritySchemes[fields[1]]
                                ELSE [SecuritySchemeObject EXCEPT !.Type = "oauth2",
                                                                  !.hasFlows = TRUE],
                                fields))]

\* the map parseServerVariableComment hands back for the server, whose
\* Variables the caller has made if they were nil: nil when the pattern
\* does not match
parseServerVariableComment(l, server) ==
    IF ~l.ok THEN NilVariables
    ELSE IF ~ContainsPlaceholder(server.URL, l.name) THEN server.Variables
    ELSE [server.Variables EXCEPT !.vars =
            MapSet(@, l.name, [Default |-> l.default, Description |-> l.desc,
                               Enum |-> l.enum])]

\* the loop of the @ServerVariable case over the servers declared so far; the
\* error of parseServerVariableComment is dropped
ServerVariableLoop(servers, l) ==
    [i \in DOMAIN servers |->
        [servers[i] EXCEPT !.Variables =
            parseServerVariableComment(l,
                [servers[i] EXCEPT !.Variables = IF @.isNil THEN MadeVariables ELSE @])]]

parseTagComment(c, l) ==
    IF ~l.ok \/ l.name = "" \/ l.desc = ""
    THEN [c EXCEPT !.err = <<"parseTagComment can not parse tag comment">>]
    ELSE [c EXCEPT !.doc.Tags = Append(@, [Name |-> l.name, Description |-> l.desc])]

\* one turn of the loop of parseInfo over the lines of the comments
ParseInfoLine(c, l) ==
    CASE "blank" \in DOMAIN l -> c
      [] l.attr = "@version" -> [c EXCEPT !.doc.Info.Version = l.value]
      [] l.attr = "@title" -> [c EXCEPT !.doc.Info.Title = l.value]
      [] l.attr = "@description" -> [c EXCEPT !.doc.Info.Description = l.value]
      [] l.attr = "@termsofserviceurl" -> [c EXCEPT !.doc.Info.TermsOfService = l.value]
      [] l.attr \in {"@contactname", "@contactemail", "@contacturl"} ->
            [c EXCEPT !.doc.Info.Contact = Append(@, <<l.attr, l.value>>)]
      [] l.attr \in {"@licensename", "@licenseurl"} ->
            [c EXCEPT !.doc.Info.License = Append(@, <<l.attr, l.value>>)]
      [] l.attr = "@server" ->
            IF ParseRequestURIFails(l.url) /\ ~ContainsBrace(l.url)
            THEN [c EXCEPT !.err = <<"server is not a valid URL", l.url>>]
            ELSE [c EXCEPT !.doc.Servers =
                    Append(@, [URL |-> l.url, Description |-> l.desc,
                               Variables |-> NilVariables])]
      [] l.attr = "@security" ->
            [c EXCEPT !.doc.Security = Append(@, l.fields)]
      [] l.attr = "@securityscheme" -> parseSecurityScheme(c, l.fields)
      [] l.attr = "@securityscope" ->
            IF Len(l.fields) < 2 THEN [c EXCEPT !.crash = "panic"]
            ELSE [c EXCEPT !.scopes =
                    MapSet(@, l.fields[1],
                           MapSet(IF l.fields[1] \in DOMAIN c.scopes THEN c.scopes[l.fields[1]]
                                  ELSE [x \in {} |-> 0],
                                  l.fields[2], JoinFrom(l.fields, 2)))]
      [] l.attr = "@externaldoc" ->
            IF ~l.ok
            THEN [c EXCEPT !.err =
                    <<"parseExternalDocComment can not parse externaldoc comment">>]
            ELSE [c EXCEPT !.doc.ExternalDocs = <<l.url, l.desc>>]
      [] l.attr = "@tag" -> parseTagComment(c, l)
      [] l.attr = "@servervariable" ->
            [c EXCEPT !.doc.Servers = ServerVariableLoop(@, l)]
      [] OTHER -> c

RECURSIVE InfoLoop(_, _, _)
InfoLoop(c, lines, i) ==
    IF i > Len(lines) \/ c.err /= <<>> \/ c.crash /= "" THEN c
    ELSE InfoLoop(ParseInfoLine(c, lines[i]), lines, i + 1)

\* the scopes gathered are given to every flow of the oauth2 scheme they name
applySecurityScopes(c) ==
    [c EXCEPT !.doc.SecuritySchemes =
        [key \in DOMAIN @ |->
            IF @[key].Type = "oauth2" /\ key \in DOMAIN c.scopes
            THEN [@[key] EXCEPT !.OAuthFlows =
                    [flow \in DOMAIN @ |-> [@[flow] EXCEPT !.Scopes = c.scopes[key]]]]
            ELSE @[key]]]

validateInfo(c) ==
    IF c.doc.Info.Title = "" THEN [c EXCEPT !.err = <<"info.title cannot not be empty">>]
    ELSE IF c.doc.Info.Version = ""
    THEN [c EXCEPT !.err = <<"info.version cannot not be empty">>]
    ELSE IF \E i \in DOMAIN c.doc.Servers : c.doc.Servers[i].URL = ""
    THEN [c EXCEPT !.err = <<"servers.url cannot not be empty">>]
    ELSE c

parseInfo(c, lines) ==
    The({IF r.err /= <<>> \/ r.crash /= "" THEN r ELSE validateInfo(applySecurityScopes(r))
         : r \in {InfoLoop(c, lines, 1)}})

(***************************************************************************)
(* The command line: the --output path as the list of its parts, and the   *)
(* --format flag.                                                          *)
(***************************************************************************)
ModeStdOut == "stdout"

ModeFileWriter == "file"

FormatJSON == "json"

FormatYAML == "yaml"

\* strings.Contains(output, ext) on the paths of the model, whose parts are
\* names, dots and slashes
ContainsPart(output, ext) == \E i \in DOMAIN output : output[i] = ext

GetMode(output) ==
    IF output /= <<>> /\ (\/ ContainsPart(output, "json") \/ ContainsPart(output, "yaml")
                          \/ ContainsPart(output, "yml"))
    THEN ModeFileWriter ELSE ModeStdOut

GetFormat(output) ==
    IF ContainsPart(output, "yaml") \/ ContainsPart(output, "yml") THEN FormatYAML
    ELSE FormatJSON

\* c.GlobalString("format"): the flag is declared with the value "json"
GlobalString(given, format) == IF given THEN format ELSE "json"

\* strings.ToLower on the format names of the model
ToLower(format) ==
    CASE format = "YAML" -> "yaml"
      [] format = "JSON" -> "json"
      [] OTHER -> format

\* the format action hands to CreateOAS
action(output, format) == IF format /= "" THEN ToLower(format) ELSE GetFormat(output)

\* the switch of CreateOAS on the format: the encoding of the bytes written,
\* none when the format is neither
Marshal(format) ==
    CASE format = FormatJSON -> "json"
      [] format = FormatYAML -> "yaml"
      [] OTHER -> ""

NoOutput ==
    [set |-> FALSE, output |-> <<>>, given |-> FALSE, format |-> "", mode |-> "",
     encoding |-> ""]

(***************************************************************************)
(* The state machine: the parser, and the run of parsePaths over the       *)
(* comment blocks.  ops holds the operation each parsed block built, log   *)
(* the blocks handed to parseOperation with what the call returned, and    *)
(* OpenAPI the document outside Paths and Components.Schemas.              *)
(***************************************************************************)
VARIABLES heap, KnownIDSchema, Schemas, Paths, ops, KnownOperationIDs, halted, log, OpenAPI,
          written

vars ==
    <<heap, KnownIDSchema, Schemas, Paths, ops, KnownOperationIDs, halted, log, OpenAPI,
      written>>

Init ==
    /\ heap = <<>>
    /\ KnownIDSchema = [x \in {} |-> 0]
    /\ Schemas = [x \in {} |-> 0]
    /\ Paths = [x \in {} |-> PathItemObject]
    /\ ops = <<>>
    /\ KnownOperationIDs = <<>>
    /\ halted = ""
    /\ log = <<>>
    /\ OpenAPI = OpenAPIObject
    /\ written = NoOutput

\* the orders in which a range over KnownNamePkg may visit the packages; the
\* two orders give every package that declares a name the first place
Reverse(seq) == [i \in DOMAIN seq |-> seq[Len(seq) + 1 - i]]

ScanOrders == {KnownPkgs, Reverse(KnownPkgs)}

RECURSIVE Consumed(_)
Consumed(entries) ==
    IF entries = <<>> THEN 0 ELSE Len(Head(entries).lines) + Consumed(Tail(entries))

\* one turn of the loop of parsePaths: parseOperation on the doc comment of a
\* function of package pkgName, and the return of its error.  A crash ends
\* the process and leaves no parser to look at.
ParseBlock(pkgName, lines, o) ==
    /\ halted = ""
    /\ \E x \in {parseOperation(
                    Ctx([heap |-> heap, KnownIDSchema |-> KnownIDSchema, Schemas |-> Schemas,
                         TypeSpecs |-> TypeSpecs],
                        OperationObject, Paths, KnownOperationIDs),
                    o, pkgName, Len(ops) + 1, lines)} :
        /\ log' = Append(log, [pkg |-> pkgName, lines |-> lines, op |-> Len(ops) + 1,
                               err |-> x.err, crash |-> x.crash])
        /\ IF x.crash /= ""
           THEN /\ halted' = x.crash
                /\ UNCHANGED <<heap, KnownIDSchema, Schemas, Paths, ops, KnownOperationIDs>>
           ELSE /\ halted' = IF x.err /= <<>> THEN "error" ELSE ""
                /\ heap' = x.s.heap
                /\ KnownIDSchema' = x.s.KnownIDSchema
                /\ Schemas' = x.s.Schemas
                /\ Paths' = x.paths
                /\ ops' = Append(ops, x.op)
                /\ KnownOperationIDs' = x.ids
    /\ UNCHANGED <<OpenAPI, written>>

\* the call of parseInfo on the comments of the main file, the first step of
\* CreateOAS, and the return of its error; the entry of the log has no
\* operation
ParseInfo(lines) ==
    /\ halted = ""
    /\ log = <<>>
    /\ \E c \in {parseInfo(InfoCtx(OpenAPI), lines)} :
        /\ log' = Append(log, [pkg |-> PkgMain, lines |-> lines, op |-> 0,
                               err |-> c.err, crash |-> c.crash])
        /\ halted' = IF c.crash /= "" THEN c.crash ELSE IF c.err /= <<>> THEN "error" ELSE ""
        /\ OpenAPI' = IF c.crash /= "" THEN OpenAPI ELSE c.doc
    /\ UNCHANGED <<heap, KnownIDSchema, Schemas, Paths, ops, KnownOperationIDs, written>>

\* the end of action and of CreateOAS once the comments are parsed: the
\* format is chosen from the command line, the document encoded and written,
\* and the process exits.  given tells whether --format is on the command
\* line, format is its value
WriteOAS(output, given, format) ==
    /\ halted = ""
    /\ log /= <<>>
    /\ written' = [set |-> TRUE, output |-> output, given |-> given, format |-> format,
                   mode |-> GetMode(output),
                   encoding |-> Marshal(action(output, GlobalString(given, format)))]
    /\ halted' = "exit"
    /\ UNCHANGED <<heap, KnownIDSchema, Schemas, Paths, ops, KnownOperationIDs, log, OpenAPI>>

(***************************************************************************)
(* The resolver specification: blocks of one line that names a type, in    *)
(* the body of a request or of a response.                                 *)
(***************************************************************************)
NamedTypes ==
    {Plain("Node"), Plain("Ping"), Plain("Tree"), Plain("User"), Plain("Pets"),
     Plain("Citrus"), Dotted("unit", "Citrus"), Dotted("test", "Citrus"),
     Dotted("unit", "FruitDisc"), Dotted("unit", "FruitBadDisc"),
     Dotted("unit", "FruitEmptyDisc"), Dotted("unit", "FruitAllMissing"),
     Dotted("unit", "FruitAnyMissing"), Dotted("unit", "FruitOneLost"),
     Dotted("nopkg", "Missing"), Dotted("mdl", "Account"), Dotted("mdl", "Missing"),
     Dotted("mdl", "Ledger"), Plain("string"), GoTypeTime}

ContainerTypes ==
    {ArrayOf(Plain("Node")), ArrayOf(Plain("User")), MapOf(Plain("User")),
     ArrayOf(Dotted("unit", "Citrus")), MapOf(Dotted("unit", "Citrus")),
     ArrayOf(Plain("string")), MapOf(Plain("string"))}

ResolveTypes == NamedTypes \cup ContainerTypes

BodyLine(t) == Param("body", "body", t, "true", "the body")

SuccessLine(t) == Response("@success", "200", "object", t, "the answer")

\* @Param body body T true "the body"
ResolveParam(t, o) ==
    /\ Consumed(log) < MaxResolveLines
    /\ ParseBlock(PkgMain, <<BodyLine(t)>>, o)

\* @Success 200 object T "the answer"
ResolveResponse(t, o) ==
    /\ Consumed(log) < MaxResolveLines
    /\ ParseBlock(PkgMain, <<SuccessLine(t)>>, o)

NextResolve ==
    \/ \E t \in ResolveTypes, o \in ScanOrders : ResolveParam(t, o)
    \/ \E t \in ResolveTypes, o \in ScanOrders : ResolveResponse(t, o)

SpecResolve == Init /\ [][NextResolve]_vars

(***************************************************************************)
(* The field specification: request bodies of the struct types whose       *)
(* fields carry the tags that parseFieldTags and its loop read.            *)
(***************************************************************************)
FieldTypes ==
    {Dotted("unit", "Release"), Dotted("unit", "Needs"), Dotted("unit", "TextMultiple"),
     Dotted("unit", "TextMinimum"), Dotted("unit", "FlagMaximum"),
     Dotted("unit", "TextExclusive"), Dotted("unit", "RefMinimum"),
     Dotted("unit", "Derived"), Dotted("unit", "Base"), ArrayOf(Dotted("unit", "Release")),
     Plain("Citrus"), Plain("User")}

\* @Param body body T true "the body" in a handler of the main package
ResolveField(t, o) ==
    /\ Consumed(log) < MaxResolveLines
    /\ ParseBlock(PkgMain, <<BodyLine(t)>>, o)

NextFields == \E t \in FieldTypes, o \in ScanOrders : ResolveField(t, o)

SpecFields == Init /\ [][NextFields]_vars

(***************************************************************************)
(* The operation specification: comment blocks of several directives, in a *)
(* package of the module or in one of the module cache.                    *)
(***************************************************************************)
OpLines ==
    {Hidden, ID("a"), ID("b"), Router("/p", "get"), Router("/q", "post"),
     SuccessLine(Plain("User"))}

\* the doc comments of at most n lines
OpBlocks(n) == UNION {[1..k -> OpLines] : k \in 1..n}

HandlerPkgs == {PkgMain, PkgModels}

ParseOp(pkgName, lines, o) ==
    /\ Consumed(log) + Len(lines) <= MaxOpLines
    /\ ParseBlock(pkgName, lines, o)

NextOps ==
    \E pkgName \in HandlerPkgs, lines \in OpBlocks(MaxOpLines - Consumed(log)),
       o \in ScanOrders :
        ParseOp(pkgName, lines, o)

SpecOps == Init /\ [][NextOps]_vars

(***************************************************************************)
(* The document specification: parseInfo on the comments of the main file, *)
(* then a comment block of directives, well-formed tags and lines that do  *)
(* not match their pattern.                                                *)
(***************************************************************************)
InfoHeader == <<InfoLine("@title", "Pets"), InfoLine("@version", "1.0")>>

InfoBodyLines ==
    {Server(URLPort, "live"), Server(URLPlain, "test"), Server(URLBad, "bad"),
     ServerVariable("port", "8443", "the port"), BadServerVariable,
     DocTag("pets", "Pets"), BadDocTag, BlankLine("@tag"), ExternalDoc(FALSE, "", ""),
     SecurityScheme(<<"key", "apiKey", "header", "X-Key">>),
     SecurityScheme(<<"key", "bogus">>), SecurityScheme(<<"key">>)}

InfoBodies(n) == {<<>>} \cup UNION {[1..k -> InfoBodyLines] : k \in 1..n}

BadResponse == [Response("@success", "200", "", NoType, "") EXCEPT !.ok = FALSE]

BadHeader == [Header("200", "", "", NoType, "") EXCEPT !.ok = FALSE]

DirectiveLines ==
    {Tag("pets"), Tag("store"), Tag(""), ID(""), BadParam, BadRouter,
     ExternalDoc(FALSE, "", ""), BadResponse, BadHeader}

DirectiveBlocks(n) == UNION {[1..k -> DirectiveLines] : k \in 1..n}

ReadInfo(header, body) == ParseInfo(header \o body)

ParseDirectives(lines, o) ==
    /\ Len(log) = 1
    /\ ParseBlock(PkgMain, lines, o)

NextInfo ==
    \/ \E header \in {<<>>, InfoHeader}, body \in InfoBodies(MaxInfoLines) :
            ReadInfo(header, body)
    \/ \E lines \in DirectiveBlocks(MaxDirectiveLines), o \in ScanOrders :
            ParseDirectives(lines, o)

SpecInfo == Init /\ [][NextInfo]_vars

(***************************************************************************)
(* The command specification: a run of the program, from the comments of   *)
(* the main file to the document written.                                  *)
(***************************************************************************)
Outputs ==
    {<<>>, <<"oas", ".", "json">>, <<"oas", ".", "yaml">>, <<"oas", ".", "yml">>,
     <<"test", ".", "csv">>, <<"yaml", "/", "oas", ".", "json">>}

Formats == {"json", "yaml", "YAML", "xml", ""}

ReadMain(body) == ParseInfo(InfoHeader \o body)

NextCLI ==
    \/ \E body \in InfoBodies(MaxMainLines) : ReadMain(body)
    \/ \E output \in Outputs, given \in BOOLEAN, format \in Formats :
            WriteOAS(output, given, IF given THEN format ELSE "")

SpecCLI == Init /\ [][NextCLI]_vars

(***************************************************************************)
(* The status specification: blocks of response and response-header lines  *)
(* whose status token is a number, default, or neither.                    *)
(***************************************************************************)
Statuses == {"200", "default", "abc"}

StatusLines ==
    {Response("@success", status, "", NoType, "done") : status \in Statuses}
    \cup {Response("@failure", status, "object", Plain("Pet"), "the pet") : status \in Statuses}
    \cup {Header(status, "x-next", "string", Plain("string"), "a link") : status \in Statuses}

StatusBlocks(n) == UNION {[1..k -> StatusLines] : k \in 1..n}

ParseStatus(lines, o) ==
    /\ Consumed(log) + Len(lines) <= MaxStatusLines
    /\ ParseBlock(PkgMain, lines, o)

NextStatus ==
    \E lines \in StatusBlocks(MaxStatusLines - Consumed(log)), o \in ScanOrders :
        ParseStatus(lines, o)

SpecStatus == Init /\ [][NextStatus]_vars

(***************************************************************************)
(* The parameter specification: blocks of @Param lines of every location,  *)
(* with Go types the parameter handlers know and types they do not.        *)
(***************************************************************************)
ParamLines ==
    {BodyLine(Plain("User")),
     Param("f", "file", Plain(GoTypeIgnored), "true", "a file"),
     Param("fs", "files", Plain(GoTypeIgnored), "true", "some files"),
     Param("name", "form", Plain("string"), "true", "a name"),
     Param("owner", "form", Plain("User"), "true", "an owner"),
     Param("id", "path", Plain("int"), "true", "an id"),
     Param("q", "query", Plain("string"), "false", "a filter"),
     Param("u", "query", Plain("User"), "false", "a user"),
     Param("since", "header", GoTypeTime, "false", "a time"),
     Param("c", "cookie", ArrayOf(Plain("string")), "false", "some cookies")}

ParamBlocks(n) == UNION {[1..k -> ParamLines] : k \in 1..n}

ParseParams(lines, o) ==
    /\ Consumed(log) + Len(lines) <= MaxParamLines
    /\ ParseBlock(PkgMain, lines, o)

NextParams ==
    \E lines \in ParamBlocks(MaxParamLines - Consumed(log)), o \in ScanOrders :
        ParseParams(lines, o)

SpecParams == Init /\ [][NextParams]_vars

(***************************************************************************)
(* The basic-type specification: request bodies and responses that name a  *)
(* basic Go type, bare or as the element of an array or of a map.          *)
(***************************************************************************)
BasicNames == {"string", "byte", "rune", "uintptr", "error", "complex64", "complex128"}

BasicTypes ==
    {Plain(n) : n \in BasicNames}
    \cup {ArrayOf(Plain(n)) : n \in BasicNames}
    \cup {MapOf(Plain(n)) : n \in BasicNames}

BasicLines ==
    {BodyLine(t) : t \in BasicTypes}
    \cup {SuccessLine(ArrayOf(Plain(n))) : n \in BasicNames}

ParseBasic(l, o) ==
    /\ Consumed(log) < MaxBasicLines
    /\ ParseBlock(PkgMain, <<l>>, o)

NextBasic == \E l \in BasicLines, o \in ScanOrders : ParseBasic(l, o)

SpecBasic == Init /\ [][NextBasic]_vars

(***************************************************************************)
(* What the properties below look at.                                      *)
(***************************************************************************)
\* the type a block of the resolver specification names
NamedType(entry) == entry.lines[1].goType

BaseType(t) == [t EXCEPT !.pre = <<>>]

Succeeded(entry) == entry.err = <<>> /\ entry.crash = ""

\* the schema the i-th block handed to its operation: the body of the request
\* or the content of the response, 0 if it handed none
SchemaOf(i) ==
    IF i > Len(ops) THEN 0
    ELSE IF ContentTypeJSON \in DOMAIN ops[i].RequestBody.Content
    THEN ops[i].RequestBody.Content[ContentTypeJSON]
    ELSE IF "200" \in DOMAIN ops[i].Responses /\ ops[i].Responses["200"].Content /= NoContent
    THEN LET content == ops[i].Responses["200"].Content
         IN  content[CHOOSE c \in DOMAIN content : TRUE]
    ELSE 0

\* the schema at ptr with every pointer replaced by the schema it points to
RECURSIVE Structure(_, _, _)
Structure(h, ptr, n) ==
    IF ptr = 0 \/ n = 0 THEN <<>>
    ELSE [node |-> [h[ptr] EXCEPT !.Items = 0, !.Properties = <<>>],
          items |-> Structure(h, h[ptr].Items, n - 1),
          props |-> [i \in DOMAIN h[ptr].Properties |->
                        [k |-> h[ptr].Properties[i].k,
                         v |-> Structure(h, h[ptr].Properties[i].v, n - 1)]]]

\* the nodes reachable from the nodes of S through items and properties
RECURSIVE Reach(_, _, _)
Reach(h, S, n) ==
    LET next == (S \cup {h[p].Items : p \in S}
                   \cup UNION {{h[p].Properties[i].v : i \in DOMAIN h[p].Properties} : p \in S})
                \ {0}
    IN  IF n = 0 \/ next = S THEN S ELSE Reach(h, next, n - 1)

\* the schemas of the document: the registry and what the operations hold
DocRoots ==
    {Schemas[id] : id \in DOMAIN Schemas}
    \cup UNION {{ops[i].RequestBody.Content[c] : c \in DOMAIN ops[i].RequestBody.Content}
                    : i \in DOMAIN ops}
    \cup UNION {{ops[i].Parameters[k].Schema : k \in DOMAIN ops[i].Parameters} : i \in DOMAIN ops}
    \cup UNION {UNION {{ops[i].Responses[r].Content[c] : c \in DOMAIN ops[i].Responses[r].Content}
                    \cup {ops[i].Responses[r].Headers[n].Schema :
                            n \in DOMAIN ops[i].Responses[r].Headers}
                    : r \in DOMAIN ops[i].Responses} : i \in DOMAIN ops}

DocNodes == Reach(heap, DocRoots \ {0}, Len(heap))

\* a reference: a $ref and nothing of a definition beside it
IsReference(node) ==
    /\ node.Ref /= ""
    /\ [node EXCEPT !.Ref = "", !.ID = "", !.PkgName = NoPkg, !.FieldName = "",
                    !.DisabledFieldNames = {}] = SchemaObject

\* the property of the registry entry id is a reference, or an array or map of one
InnerIsRef(id) ==
    \A i \in DOMAIN heap[Schemas[id]].Properties :
        LET node == heap[heap[Schemas[id]].Properties[i].v]
        IN  \/ node.Ref /= ""
            \/ node.Items /= 0 /\ heap[node.Items].Ref /= ""

\* the last part of a $ref
RefOf(id) == AddSchemaRefLinkPrefix(id)

(***************************************************************************)
(* Properties of the schema resolver, checked under SpecResolve.           *)
(***************************************************************************)
\* the IDs a self-referencing type of the model brings into the registry
CycleIDs(t) == IF t = Plain("Node") THEN {"Node"} ELSE {"Ping", "Pong"}

\* C1: resolving a struct with a field that is an array of the struct itself,
\* or one of two structs that refer to each other, terminates, and leaves one
\* registry entry per type whose inner occurrences of the types are $refs.
C1_SelfReferenceTerminates ==
    \A i \in DOMAIN log :
        NamedType(log[i]) \in {Plain("Node"), Plain("Ping")} =>
            /\ Succeeded(log[i])
            /\ \A id \in CycleIDs(NamedType(log[i])) :
                    id \in DOMAIN Schemas /\ InnerIsRef(id)

\* C2: two resolutions of the same type-name expression, from the same or
\* from another call site, hand out schemas of the same structural content,
\* and a declared type has its entry in the registry.
C2_SecondResolutionSameContent ==
    \A i, j \in DOMAIN log :
        (i < j /\ NamedType(log[i]) = NamedType(log[j])
               /\ Succeeded(log[i]) /\ Succeeded(log[j])) =>
            /\ Structure(heap, SchemaOf(i), Len(heap)) = Structure(heap, SchemaOf(j), Len(heap))
            /\ LET t == BaseType(NamedType(log[i]))
               IN  (t.qual = <<>> /\ t.name \in DOMAIN MainTypes) => t.name \in DOMAIN Schemas

\* C3: once a block has resolved a type name into the memo, a later block
\* that names the same type, bare or under a prefix, leaves the memo entry on
\* the node of the first resolution.
C3_MemoKeepsFirstNode ==
    [][\A i \in DOMAIN log :
         LET id == GenSchemaObjectID(BaseType(NamedType(log[i])))
         IN  (/\ Len(log') > Len(log)
              /\ BaseType(NamedType(log'[Len(log')])) = BaseType(NamedType(log[i]))
              /\ id \in DOMAIN KnownIDSchema)
             => /\ id \in DOMAIN KnownIDSchema'
                /\ KnownIDSchema'[id] = KnownIDSchema[id]]_vars

\* C4: the registry is append-only: an ID that has an entry keeps it, on the
\* same node, through every later resolution.
C4_RegistryAppendOnly ==
    [][\A id \in DOMAIN Schemas :
            id \in DOMAIN Schemas' /\ Schemas'[id] = Schemas[id]]_vars

\* a type was resolved in full a second time (the memo moved to the new node)
\* and the registry still holds the node of the first resolution
C4_Witness ==
    \E id \in DOMAIN Schemas :
        /\ id \in DOMAIN KnownIDSchema
        /\ KnownIDSchema[id] /= Schemas[id]
        /\ Len(log) >= 2

\* C5: in the document of a completed resolution every schema node is a
\* reference with nothing structural beside its $ref, or has no $ref.
C5_ReferenceOrDefinition ==
    halted = "" => \A p \in DocNodes : heap[p].Ref = "" \/ IsReference(heap[p])

\* the struct types of the model with a oneOf field and a discriminator
DiscriminatedTypes == {"FruitDisc", "FruitBadDisc", "FruitEmptyDisc"}

\* the members the oneOf tag of the only field of the type lists, and the
\* property its discriminator tag names
MembersOf(name) == UnitTypes[name].fields[1].tag.oneOf

DiscriminatorOf(name) == UnitTypes[name].fields[1].tag.discriminator

\* C8: resolving a struct with a oneOf field and a discriminator d succeeds
\* only if the schema of every member has a property d, and fails otherwise
\* with the discriminator error that names d and the first member lacking it.
C8_DiscriminatorInEveryMember ==
    \A i \in DOMAIN log : \A name \in DiscriminatedTypes :
        NamedType(log[i]) = Dotted("unit", name) =>
            LET members == MembersOf(name)
                d == DiscriminatorOf(name)
                lacking == {k \in DOMAIN members :
                                ~\E f \in DOMAIN UnitTypes[members[k].name].fields :
                                    d \in {UnitTypes[members[k].name].fields[f].tag.json[n] :
                                            n \in DOMAIN UnitTypes[members[k].name].fields[f].tag.json}}
            IN  /\ log[i].crash = ""
                /\ log[i].err = <<>> => lacking = {}
                /\ lacking /= {} =>
                        log[i].err = <<"unable to find discriminator field", d, "in schema",
                                       members[CHOOSE k \in lacking : \A m \in lacking : k <= m].name>>

\* the struct types of the model whose union tag lists a member no package declares
UnionMissTypes == {"FruitAllMissing", "FruitAnyMissing", "FruitOneLost"}

\* the union lists of the field schemas of the registry entry id
UnionRefs(id) ==
    UNION {LET node == heap[heap[Schemas[id]].Properties[i].v]
           IN  {node.AllOf[k] : k \in DOMAIN node.AllOf}
               \cup {node.OneOf[k] : k \in DOMAIN node.OneOf}
               \cup {node.AnyOf[k] : k \in DOMAIN node.AnyOf}
           : i \in DOMAIN heap[Schemas[id]].Properties}

\* C9: a oneOf, allOf or anyOf tag that lists a member no package declares
\* makes the resolution of the struct fail, and no reference for the member
\* is put in a union list.
C9_UnionMissIsHardError ==
    \A i \in DOMAIN log : \A name \in UnionMissTypes :
        NamedType(log[i]) = Dotted("unit", name) =>
            /\ ~Succeeded(log[i])
            /\ name \in DOMAIN Schemas =>
                    UnionRefs(name) \cap {RefOf(""), RefOf("Missing"), RefOf("Lost")} = {}

\* a dotted name that neither the guessed package nor the package the alias
\* of the current package stands for declares
DottedMiss(pkgName, t) ==
    LET guess == GuessPkgName(t.qual)
    IN  /\ t.pre = <<>> /\ t.qual /= <<>> /\ t /= GoTypeTime
        /\ ~getTypeSpecExists(NewParserState, guess, t.name)
        /\ AliasFound(pkgName, guess) =>
                ~getTypeSpecExists(NewParserState,
                                   PkgNameImportedPkgAlias[pkgName][guess][1], t.name)

\* C10: a body or response annotation that names a dotted type found neither
\* under the guessed package nor through the import aliases gets an empty
\* schema and no error, and the block is parsed on.
C10_DottedMissTolerated ==
    \A i \in DOMAIN log :
        DottedMiss(log[i].pkg, NamedType(log[i])) =>
            /\ Succeeded(log[i])
            /\ halted = ""
            /\ SchemaOf(i) /= 0

(***************************************************************************)
(* Properties of the struct fields, checked under SpecFields.              *)
(***************************************************************************)
\* the values of a list-valued tag of the field
TagValues(f, k) == IF f.hasTag /\ k \in DOMAIN f.tag THEN {f.tag[k][i] : i \in DOMAIN f.tag[k]} ELSE {}

\* the goas tag or the json tag of the field holds the opt-out marker
OptedOut(f) == "-" \in TagValues(f, "goas") \cup TagValues(f, "json")

\* every name the field could be listed under: its Go name and its json values
NamesOf(f) == {f.name} \cup (TagValues(f, "json") \ {"", "-", "required", "omitempty"})

\* the declaration of a struct type of the field specification
OwnerDecl(id) == IF id \in DOMAIN MainTypes THEN MainTypes[id] ELSE UnitTypes[id]

\* the struct types of the model with a field that opts out
OptOutOwners == {"Release", "User"}

\* the node of the registry entry with the fields a struct owns itself reset
OwnTagFields(node) ==
    [node EXCEPT !.ID = "", !.PkgName = NoPkg, !.Type = "", !.hasProps = FALSE,
                 !.Properties = <<>>, !.Required = <<>>, !.Title = "",
                 !.DisabledFieldNames = {}]

\* C11: a field whose goas or json tag holds "-" is no property of the
\* resolved schema, is not in its required list, and nothing its tags say
\* (example, description, constraint, union reference) is in the schema.
C11_OptOutShortCircuits ==
    \A id \in OptOutOwners \cap DOMAIN Schemas :
        \A k \in DOMAIN OwnerDecl(id).fields :
            LET f == OwnerDecl(id).fields[k]
                node == heap[Schemas[id]]
            IN  OptedOut(f) =>
                    /\ \A i \in DOMAIN node.Properties :
                            /\ node.Properties[i].k \notin NamesOf(f)
                            /\ heap[node.Properties[i].v].FieldName /= f.name
                    /\ \A i \in DOMAIN node.Required : node.Required[i] \notin NamesOf(f)
                    /\ OwnTagFields(node) = SchemaObject

\* Release was resolved: its two opted-out fields are disabled and the fields
\* beside them are its properties
C11_Witness ==
    /\ "Release" \in DOMAIN Schemas
    /\ heap[Schemas["Release"]].DisabledFieldNames = {"deprecated", "GoasOnly"}
    /\ Len(heap[Schemas["Release"]].Properties) = 3
    /\ halted = ""

\* the field is marked required by its json tag, by a required tag, or by both
MarkedRequired(f) ==
    f.hasTag /\ ("required" \in TagValues(f, "json") \/ "required" \in DOMAIN f.tag)

\* the name the json tag gives the field: its last value that is a name
RECURSIVE JsonName(_, _)
JsonName(values, name) ==
    IF values = <<>> THEN name
    ELSE JsonName(Tail(values),
                  IF Head(values) \in {"", "-", "required", "omitempty"} THEN name
                  ELSE Head(values))

PropertyName(f) ==
    IF f.hasTag /\ "json" \in DOMAIN f.tag THEN JsonName(f.tag.json, f.name) ELSE f.name

Occurrences(list, x) == Cardinality({i \in DOMAIN list : list[i] = x})

\* the struct types of the model with fields that are marked required
RequiredOwners == {"Needs", "Release", "User"}

\* C12: a field with the required token in its json tag, with a required tag,
\* or with both, is in the required list of the owning schema exactly once.
C12_RequiredExactlyOnce ==
    \A id \in RequiredOwners \cap DOMAIN Schemas :
        \A k \in DOMAIN OwnerDecl(id).fields :
            LET f == OwnerDecl(id).fields[k]
            IN  (MarkedRequired(f) /\ ~OptedOut(f)) =>
                    Occurrences(heap[Schemas[id]].Required, PropertyName(f)) = 1

\* Needs was resolved: the field with both marks, the one with the json
\* token and the one with the tag are listed, the unmarked one is not
C12_Witness ==
    /\ "Needs" \in DOMAIN Schemas
    /\ heap[Schemas["Needs"]].Required = <<"both", "marked", "explicit">>
    /\ halted = ""

\* the schema type the declared type of a field resolves to
FieldType(f) ==
    CASE HasArrayPrefix(f.type) -> TypeArray
      [] HasMapPrefix(f.type) -> TypeObject
      [] f.type = GoTypeTime -> "string"
      [] IsGoTypeOASType(f.type) -> GoTypesOASTypes[f.type.name]
      [] OTHER -> ""

RangeTags == {"multipleOf", "minimum", "maximum", "exclusiveMinimum", "exclusiveMaximum"}

\* a field that is read, is not numeric and carries a tag of numeric fields
RangedNonNumeric(f) ==
    /\ f.name /= "" /\ f.hasTag /\ ~OptedOut(f)
    /\ FieldType(f) \notin {"integer", "number"}
    /\ DOMAIN f.tag \cap RangeTags /= {}

\* C13: the resolution of a struct fails with an error whenever one of its
\* fields has a schema type that is neither integer nor number and carries
\* multipleOf, minimum, maximum, exclusiveMinimum or exclusiveMaximum.
C13_RangeTagsNumericOnly ==
    \A i \in DOMAIN log :
        LET t == BaseType(NamedType(log[i]))
        IN  (/\ t.qual = <<"unit">>
             /\ t.name \in DOMAIN UnitTypes
             /\ \E k \in DOMAIN UnitTypes[t.name].fields :
                    RangedNonNumeric(UnitTypes[t.name].fields[k]))
            => log[i].err /= <<>>

\* the property names of the struct declaration
PropertyNames(decl) ==
    {PropertyName(decl.fields[k]) :
        k \in {n \in DOMAIN decl.fields : decl.fields[n].name /= "" /\ ~OptedOut(decl.fields[n])}}

\* the struct types the embedded fields of the declaration name
EmbeddedIn(decl) ==
    {decl.fields[k].type.name : k \in {n \in DOMAIN decl.fields : decl.fields[n].name = ""}}

\* C19: every property of the type of an embedded field is a property of the
\* parent's schema (one whose name the parent has itself is the parent's).
C19_EmbeddedPropertiesMerged ==
    \A i \in DOMAIN log :
        (NamedType(log[i]) = Dotted("unit", "Derived") /\ Succeeded(log[i])) =>
            /\ "Derived" \in DOMAIN Schemas
            /\ \A e \in EmbeddedIn(UnitTypes["Derived"]) :
                    \A name \in PropertyNames(UnitTypes[e]) :
                        HasKey(heap[Schemas["Derived"]].Properties, name)

\* what the first block of a run hands back when the range over KnownNamePkg
\* visits the packages in the order o
FirstOutcome(lines, o) ==
    parseOperation(Ctx(NewParserState, OperationObject, [x \in {} |-> PathItemObject], <<>>),
                   o, PkgMain, 1, lines)

\* the unqualified names that the current package does not declare and more
\* than one other package does
AmbiguousNames ==
    {n \in UNION {DOMAIN TypeSpecs[pkg] : pkg \in PkgSet} :
        /\ n \notin DOMAIN TypeSpecs[PkgMain]
        /\ Cardinality({pkg \in PkgSet : n \in DOMAIN TypeSpecs[pkg]}) > 1}

\* C20: for a name declared in more than one other package, two runs over
\* the same input choose the same package and build the same schema: what
\* the first block of the run left is what it leaves under every order in
\* which the packages are visited.
C20_StableFirstMatch ==
    (/\ Len(log) = 1
     /\ NamedType(log[1]).pre = <<>> /\ NamedType(log[1]).qual = <<>>
     /\ NamedType(log[1]).name \in AmbiguousNames)
    => \A o \in ScanOrders :
            /\ FirstOutcome(log[1].lines, o).s.heap = heap
            /\ FirstOutcome(log[1].lines, o).s.Schemas = Schemas
            /\ FirstOutcome(log[1].lines, o).err = log[1].err

(***************************************************************************)
(* Properties of parseOperation, checked under SpecOps.                    *)
(***************************************************************************)
\* the block reached the loop over its lines
Parsed(entry) ==
    /\ InModule(entry.pkg)
    /\ \A k \in DOMAIN entry.lines : entry.lines[k] /= Hidden

\* the values of the @ID lines of the block
IDValues(entry) ==
    {entry.lines[k].value : k \in {n \in DOMAIN entry.lines : entry.lines[n].attr = "@id"}}

\* C6: no two operations of a run carry the same operation ID, and a block
\* with an @ID whose value an earlier operation carries fails with the
\* "operationID is already in use" error.
C6_OperationIDsUnique ==
    /\ \A i, j \in DOMAIN ops :
            (i < j /\ ops[i].OperationID /= "") => ops[j].OperationID /= ops[i].OperationID
    /\ \A j \in DOMAIN log :
            (/\ Parsed(log[j])
             /\ \E i \in 1..(j - 1) : ops[i].OperationID \in IDValues(log[j]))
            => /\ Len(log[j].err) = 2
               /\ log[j].err[1] = "operationID is already in use"
               /\ log[j].err[2] \in IDValues(log[j])

\* a block failed on the ID an earlier operation carries
C6_Witness ==
    \E i, j \in DOMAIN log :
        /\ i < j
        /\ ops[i].OperationID = "a"
        /\ Parsed(log[j])
        /\ log[j].err = <<"operationID is already in use", "a">>
        /\ halted = "error"

\* C7: a block with an @Hidden line, wherever the line stands, leaves Paths,
\* the registry, the memo and the known operation IDs as they were.
C7_HiddenBlockChangesNothing ==
    [][(/\ Len(log') > Len(log)
        /\ \E k \in DOMAIN log'[Len(log')].lines : log'[Len(log')].lines[k] = Hidden)
       => UNCHANGED <<Paths, Schemas, KnownIDSchema, KnownOperationIDs, heap>>]_vars

\* a block of the module with a route, a response and then @Hidden was parsed
\* and the route and the type are in no part of the document
C7_Witness ==
    \E j \in DOMAIN log :
        /\ InModule(log[j].pkg)
        /\ log[j].lines = <<Router("/p", "get"), SuccessLine(Plain("User")), Hidden>>
        /\ Succeeded(log[j])
        /\ "/p" \notin DOMAIN Paths
        /\ "User" \notin DOMAIN Schemas

\* the route lines of the block with one of the eight verbs
RouteLines(entry) ==
    {k \in DOMAIN entry.lines :
        entry.lines[k].attr = "@router" /\ ToUpper(entry.lines[k].method) \in Verbs}

\* the operation carries what the line k of the block says
Carries(op, lines, k) ==
    CASE lines[k].attr = "@id" ->
            \E n \in k..Len(lines) :
                /\ lines[n].attr = "@id" /\ op.OperationID = lines[n].value
                /\ \A m \in (n + 1)..Len(lines) : lines[m].attr /= "@id"
      [] lines[k].attr = "@success" ->
            /\ lines[k].status \in DOMAIN op.Responses
            /\ op.Responses[lines[k].status].Description = lines[k].desc
            /\ op.Responses[lines[k].status].Content /= NoContent
      [] OTHER -> TRUE

StatusAccepted(status) == IsDecimal(status) \/ status = "default"

\* C15: a block of @Success, @Failure and @Header lines is parsed without
\* error if and only if every status token in it is a decimal integer or the
\* literal default.
C15_StatusDecimalOrDefault ==
    \A j \in DOMAIN log :
        (log[j].err = <<>>) <=>
            \A k \in DOMAIN log[j].lines : StatusAccepted(log[j].lines[k].status)

(***************************************************************************)
(* Properties of the document, checked under SpecInfo.                     *)
(***************************************************************************)
SchemeKinds == {"http", "apiKey", "openIdConnect"} \cup Oauth2Kinds

\* the line does not match the pattern of its directive
Malformed(l) ==
    \/ "ok" \in DOMAIN l /\ ~l.ok
    \/ /\ l.attr = "@securityscheme"
       /\ \/ Len(l.fields) < 2
          \/ l.fields[2] \notin SchemeKinds
          \/ Len(l.fields) < FieldsRead(l.fields)

\* C16: parseInfo, or parseOperation, returns an error whenever a line of its
\* comments is a param, response, header, route, tag, external-doc,
\* server-variable or security-scheme directive that does not match the
\* directive's pattern.
C16_MalformedDirectiveIsError ==
    \A j \in DOMAIN log :
        (\E k \in DOMAIN log[j].lines : Malformed(log[j].lines[k])) =>
            log[j].err /= <<>> /\ log[j].crash = ""

\* the names of the server variables the comments declare
DeclaredVariables(lines) ==
    {lines[k].name : k \in {n \in DOMAIN lines :
                                lines[n].attr = "@servervariable" /\ lines[n].ok}}

\* C17: once parseInfo has returned without error, a server has the
\* variable of a declared name if and only if its URL has the placeholder
\* {name}.
C17_VariableIffPlaceholder ==
    (Len(log) = 1 /\ log[1].op = 0 /\ Succeeded(log[1])) =>
        \A i \in DOMAIN OpenAPI.Servers : \A name \in DeclaredVariables(log[1].lines) :
            (name \in DOMAIN OpenAPI.Servers[i].Variables.vars)
                <=> ContainsPlaceholder(OpenAPI.Servers[i].URL, name)

NoDuplicate(list) == \A i, j \in DOMAIN list : list[i] = list[j] => i = j

\* C18: the tags of the document have no name twice, and the tags of an
\* operation have no name twice.
C18_TagsDeduplicated ==
    halted = "" =>
        /\ NoDuplicate([i \in DOMAIN OpenAPI.Tags |-> OpenAPI.Tags[i].Name])
        /\ \A i \in DOMAIN ops : NoDuplicate(ops[i].Tags)

(***************************************************************************)
(* Properties of a failing block, checked under SpecOps.                   *)
(***************************************************************************)
\* the paths of the route lines of the block
RoutePaths(entry) ==
    {entry.lines[k].path : k \in {n \in DOMAIN entry.lines : entry.lines[n].attr = "@router"}}

\* C21: a block one of whose directives fails leaves nothing in Paths: no
\* verb of a path holds its operation, and every path entry has a route line
\* in a block that was parsed without error.
C21_FailedBlockLeavesNoPath ==
    \A j \in DOMAIN log :
        (Parsed(log[j]) /\ log[j].err /= <<>>) =>
            /\ \A path \in DOMAIN Paths : \A verb \in Verbs : Paths[path][verb] /= log[j].op
            /\ \A path \in DOMAIN Paths :
                    \E i \in DOMAIN log :
                        /\ i /= j /\ Parsed(log[i]) /\ Succeeded(log[i])
                        /\ path \in RoutePaths(log[i])

(***************************************************************************)
(* Properties of the lines without a value, checked under SpecInfo.        *)
(***************************************************************************)
\* the line is a directive keyword with nothing but blanks after it
IsBlank(l) == "blank" \in DOMAIN l \/ ("value" \in DOMAIN l /\ l.value = "")

RECURSIVE NonBlank(_)
NonBlank(lines) ==
    IF lines = <<>> THEN <<>>
    ELSE IF IsBlank(Head(lines)) THEN NonBlank(Tail(lines))
    ELSE <<Head(lines)>> \o NonBlank(Tail(lines))

\* C22: a line that is a directive keyword followed by nothing carries no
\* directive: the document info, the operation built and the known
\* operation IDs after the comments are those the comments without such
\* lines give.
C22_BlankLineCarriesNothing ==
    [][(Len(log') > Len(log) /\ log'[Len(log')].crash = "") =>
        LET e == log'[Len(log')]
        IN  IF e.op = 0
            THEN OpenAPI' = parseInfo(InfoCtx(OpenAPI), NonBlank(e.lines)).doc
            ELSE \A x \in {parseOperation(
                            Ctx([heap |-> heap, KnownIDSchema |-> KnownIDSchema,
                                 Schemas |-> Schemas, TypeSpecs |-> TypeSpecs],
                                OperationObject, Paths, KnownOperationIDs),
                            KnownPkgs, e.pkg, e.op, NonBlank(e.lines))} :
                    /\ ops'[e.op] = x.op
                    /\ KnownOperationIDs' = x.ids]_vars

(***************************************************************************)
(* Properties of map[]T and of references, checked under SpecResolve.      *)
(***************************************************************************)
\* the node is the schema of the type t: its definition, or a reference to it
IsSchemaOf(node, t) ==
    IF IsGoTypeOASType(t) THEN node.Type = GoTypesOASTypes[t.name]
    ELSE \/ node.ID = GenSchemaObjectID(t)
         \/ node.Ref = RefOf(GenSchemaObjectID(t))

\* the field name the line hands to parseSchemaObject: the name of the
\* parameter, none for a response
FieldNameHint(entry) ==
    IF entry.lines[1].attr = "@param" THEN entry.lines[1].name ELSE ""

\* C23: the schema of map[]T is an object with exactly one property, named
\* by the field name given, or by the placeholder key when none is, whose
\* value is the schema of T, a $ref when T is in the memo already.
C23_MapHasOneProperty ==
    \A j \in DOMAIN log :
        (HasMapPrefix(NamedType(log[j])) /\ Succeeded(log[j]) /\ SchemaOf(j) /= 0) =>
            LET node == heap[SchemaOf(j)]
            IN  /\ node.Type = TypeObject
                /\ node.Items = 0
                /\ Len(node.Properties) = 1
                /\ node.Properties[1].k = IF FieldNameHint(log[j]) = "" THEN DefaultFieldName
                                           ELSE FieldNameHint(log[j])
                /\ IsSchemaOf(heap[node.Properties[1].v], StripPrefix(NamedType(log[j])))

\* the $ref strings of the document: those of the schema nodes and those of
\* their allOf, oneOf and anyOf lists
DocRefs ==
    UNION {LET node == heap[p]
           IN  (IF node.Ref = "" THEN {} ELSE {node.Ref})
               \cup {node.AllOf[k] : k \in DOMAIN node.AllOf}
               \cup {node.OneOf[k] : k \in DOMAIN node.OneOf}
               \cup {node.AnyOf[k] : k \in DOMAIN node.AnyOf}
           : p \in DocNodes}

\* C25: in a document produced without error every $ref is the prefix
\* #/components/schemas/ followed by a non-empty key of components.schemas.
C25_RefsNameRegistryEntries ==
    (halted = "" /\ \A i \in DOMAIN log : Succeeded(log[i])) =>
        \A ref \in DocRefs : \E id \in DOMAIN Schemas : id /= "" /\ ref = RefOf(id)

\* the block names a type by its package, and the package declares it
NamesDeclared(entry) ==
    LET t == NamedType(entry)
    IN  /\ t.pre = <<>> /\ t.qual /= <<>> /\ t /= GoTypeTime
        /\ getTypeSpecExists(NewParserState, GuessPkgName(t.qual), t.name)

\* C26: the reference a block emits for pkg.T names a registry entry built
\* from the declaration of T in pkg, whichever package's T was resolved
\* before it in the run.
C26_SameNameOtherPackage ==
    \A j \in DOMAIN log :
        (NamesDeclared(log[j]) /\ Succeeded(log[j]) /\ SchemaOf(j) /= 0) =>
            \E id \in DOMAIN Schemas :
                /\ heap[SchemaOf(j)].Ref = RefOf(id)
                /\ heap[Schemas[id]].PkgName = GuessPkgName(NamedType(log[j]).qual)

(***************************************************************************)
(* Properties of the response headers, checked under SpecStatus.           *)
(***************************************************************************)
\* the operation of block j holds a response for the status of the header
\* line l with the header of l in it
HeaderStored(j, l) ==
    /\ log[j].op \in DOMAIN ops
    /\ l.status \in DOMAIN ops[log[j].op].Responses
    /\ l.name \in DOMAIN ops[log[j].op].Responses[l.status].Headers

\* C27: every @Header line of a block parsed without error, with a decimal
\* status S, is among the headers of the response the operation stores under
\* S, wherever the response line for S stands and also when there is none.
C27_HeaderReachesResponse ==
    \A j \in DOMAIN log :
        Succeeded(log[j]) =>
            \A k \in DOMAIN log[j].lines :
                LET l == log[j].lines[k]
                IN  (l.attr = "@header" /\ IsDecimal(l.status)) => HeaderStored(j, l)

(***************************************************************************)
(* Properties of the parameters, checked under SpecParams.                 *)
(***************************************************************************)
\* the operation of block j has a form-content schema with the property
\* the line l names
FormProperty(j, l) ==
    /\ log[j].op \in DOMAIN ops
    /\ ContentTypeForm \in DOMAIN ops[log[j].op].RequestBody.Content
    /\ HasKey(heap[ops[log[j].op].RequestBody.Content[ContentTypeForm]].Properties, l.name)

\* C28: no block of @Param lines ends the process, in whatever order body,
\* form, file and files parameters stand in it, and every form, file or
\* files parameter of a block parsed without error is a property of the
\* form-content schema of the request body of the operation.
C28_ParamMixNeverCrashes ==
    /\ halted = ""
    /\ \A j \in DOMAIN log :
            /\ log[j].crash = ""
            /\ Succeeded(log[j]) =>
                    \A k \in DOMAIN log[j].lines :
                        log[j].lines[k].in \in {"form", "file", "files"} =>
                            FormProperty(j, log[j].lines[k])

\* the lines of the block in path, query, header or cookie
RECURSIVE PlacedParams(_)
PlacedParams(lines) ==
    IF lines = <<>> THEN <<>>
    ELSE (IF Head(lines).in \in {"path", "query", "header", "cookie"}
          THEN <<[Name |-> Head(lines).name, In |-> Head(lines).in]>>
          ELSE <<>>) \o PlacedParams(Tail(lines))

\* the names and the locations of the parameters of the operation
ParameterNames(op) ==
    [k \in DOMAIN op.Parameters |-> [Name |-> op.Parameters[k].Name, In |-> op.Parameters[k].In]]

\* C29: the parameters of the operation of a block parsed without error are
\* the path, query, header and cookie lines of the block, one for each line
\* and in the order of the lines.
C29_PlacedParamsAllAppended ==
    \A j \in DOMAIN log :
        Succeeded(log[j]) =>
            /\ log[j].op \in DOMAIN ops
            /\ ParameterNames(ops[log[j].op]) = PlacedParams(log[j].lines)

(***************************************************************************)
(* Properties of the basic type names, checked under SpecBasic.            *)
(***************************************************************************)
\* the type of the block without its [] and map[] prefixes
ElementType(entry) == BaseType(NamedType(entry))

\* C30: a block that names a basic Go type, bare or under [] or map[], does
\* not end the process with the missing-definition exit, and leaves no memo
\* entry for the name, which a look-up in the declaration tables would make.
C30_BasicNamesNeverLookedUp ==
    \A j \in DOMAIN log :
        IsBasicGoType(ElementType(log[j])) =>
            /\ log[j].crash = ""
            /\ ElementType(log[j]).name \notin DOMAIN KnownIDSchema

(***************************************************************************)
(* Properties of the command line, checked under SpecCLI.                  *)
(***************************************************************************)
\* the last part of the path: its extension
Extension(output) == IF output = <<>> THEN "" ELSE output[Len(output)]

\* C24: when --output names a .yaml or .yml file and --format is not on the
\* command line, the document is written to the file encoded as YAML.
C24_YamlFileGetsYaml ==
    (written.set /\ ~written.given /\ Extension(written.output) \in {"yaml", "yml"}) =>
        written.mode = ModeFileWriter /\ written.encoding = "yaml"

============================================================================
